---- MODULE Spec2Model ----
(***************************************************************************)
(* A model of the concurrent ingestion pipeline of readerer:               *)
(*   Ingester.Ingest (producer loop, consumer goroutine, shutdown),        *)
(*   the worker pool, the batch writer (Submit, flushLocked, ticker loop,  *)
(*   committer, executeBatch, Close) and the relational store as far as    *)
(*   the ingestion writes touch it (word_sources.occurrence_count and      *)
(*   sources.last_processed_sentence).                                     *)
(*                                                                         *)
(* Every goroutine is a process with its own program counter.  A database  *)
(* transaction is a working copy of the store that commit installs and     *)
(* rollback discards.  Errors are strings; "nil" is the nil error.         *)
(***************************************************************************)
EXTENDS Integers, Sequences, FiniteSets, TLC

\* ------------------------------------------------------------------ bounds
NumSentences == 3      \* len(sentences) of the Ingest calls
MaxWorkers == 2        \* largest Ingester.Workers of a call
BatchSize == 2         \* Ingester.BatchSize
MaxFaults == 1         \* database operations the environment may fail
NumSubmitters == 3     \* goroutines calling WorkerPool.Submit, one job each
MaxQueue == 2          \* largest job queue capacity of a stand-alone pool
MaxCloses == 2         \* calls of WorkerPool.Close
MaxOccurrences == 6    \* largest sum of the occurrence_count column
MaxLinkFailures == 1   \* LinkWordToSource calls that return an error
NumTexts == 6          \* distinct sentence texts offered as context
MaxIncrement == 2      \* largest incrementAmount of a call
NumWordCallers == 2    \* goroutines calling CreateOrGetWord
MaxWordCalls == 3      \* CreateOrGetWord calls on one store
NumSourceCallers == 3  \* goroutines calling CreateOrGetSource, one call each
MaxTokens == 3         \* most tokens of the sentence ingested on its own
MaxEntries == 3        \* most entries of the dictionary given to NewImporter

\* ------------------------------------------------------------------ constants
CommitChCap == 2       \* make(chan []WriteFunc, 2)
QueueFactor == 2       \* queue and result channel hold Workers*2 entries
ContextCap == 5        \* WHERE (SELECT COUNT(*) FROM word_contexts ...) < 5
maxRetries == 3        \* const maxRetries = 3 of CreateOrGetSource
KatakanaFirst == 12449 \* 0x30A1, the first rune ToHiragana converts
KatakanaLast == 12534  \* 0x30F6, the last rune ToHiragana converts
KanaShift == 96        \* 0x60, the distance from a katakana to its hiragana

Nil == "nil"
Canceled == "context canceled"
ErrBatchWriterClosed == "batch writer closed"
ErrBatch == "batch failed"
ErrDropped(n) == "batch writer: dropping batch of " \o ToString(n) \o " items"
ErrSubmit == "submit failed"
ErrPoolClosed == "worker pool closed"

\* ------------------------------------------------------------------ input
\* Part-of-speech labels, transliterated: kigou = 記号, hojokigou = 補助記号,
\* joshi = 助詞, jodoushi = 助動詞, meishi = 名詞, doushi = 動詞, suu = 数.
FilteredPOS == {"kigou", "hojokigou", "joshi", "jodoushi"}

\* Surfaces of the token universe that match ^[a-zA-Z0-9\s[:punct:]]+$.
AsciiSurfaces == {"A", "42"}

Tok(surface, base, pos) ==
    [Surface |-> surface, BaseForm |-> base, PrimaryPOS |-> pos[1], PartsOfSpeech |-> pos]

\* The sentence shapes the input list cycles through.
SentenceShapes ==
    << << Tok("tegami", "tegami", <<"meishi">>), Tok("wo", "wo", <<"joshi">>),
          Tok("kai", "kaku", <<"doushi">>), Tok("neko", "*", <<"meishi">>) >>,
       << Tok("neko", "neko", <<"meishi">>), Tok("ha", "ha", <<"joshi">>),
          Tok("neko", "neko", <<"meishi">>) >>,
       << Tok("A", "A", <<"meishi">>), Tok("san", "san", <<"meishi", "suu">>),
          Tok("masi", "masu", <<"jodoushi">>) >>,
       << Tok("kaku", "", <<"doushi">>) >> >>

sentences ==
    [j \in 0..(NumSentences - 1) |-> SentenceShapes[(j % Len(SentenceShapes)) + 1]]

totalSentences == NumSentences

WordUniverse == {"neko", "tegami", "kaku"}

\* ------------------------------------------------------------------ processSentence
\* Mutation of Discarded: only the primary part of speech filters.
DiscardedByPrimaryPOS(t) == t.PrimaryPOS \in FilteredPOS

Discarded(t) ==
    \/ t.PrimaryPOS \in FilteredPOS
    \/ Len(t.PartsOfSpeech) > 1 /\ t.PartsOfSpeech[2] = "suu"
    \/ t.Surface \in AsciiSurfaces

wordToSave(t) == IF t.BaseForm # "" /\ t.BaseForm # "*" THEN t.BaseForm ELSE t.Surface

RECURSIVE orderedWords(_)
orderedWords(toks) ==
    IF toks = <<>> THEN <<>>
    ELSE LET front == orderedWords(SubSeq(toks, 1, Len(toks) - 1))
             t == toks[Len(toks)]
         IN  IF Discarded(t) \/ (\E k \in 1..Len(front) : front[k] = wordToSave(t))
             THEN front
             ELSE Append(front, wordToSave(t))

\* Mutation of wordCounts: every retained word counts once.
wordCountsOnce(toks, w) == 1

wordCounts(toks, w) ==
    Cardinality({k \in 1..Len(toks) : ~Discarded(toks[k]) /\ wordToSave(toks[k]) = w})

\* The Words of the processedSentence of a token list: one entry per retained
\* canonical word in first-seen order, with its number of occurrences.
processTokens(toks) ==
    LET ow == orderedWords(toks)
    IN  [k \in 1..Len(ow) |-> [Word |-> ow[k], Count |-> wordCounts(toks, ow[k])]]

\* The processedSentence.Words of every sentence of the input.
processedWords == [j \in 0..(NumSentences - 1) |-> processTokens(sentences[j])]

\* The Words of the processedSentence of sentence idx.
processSentence(idx) == processedWords[idx]

RECURSIVE SumCounts(_, _)
SumCounts(words, upto) ==
    IF upto = 0 THEN 0 ELSE SumCounts(words, upto - 1) + words[upto].Count

\* Occurrences of the retained words of sentence idx.
Occurrences(idx) == SumCounts(processSentence(idx), Len(processSentence(idx)))

RECURSIVE SumOver(_, _)
SumOver(S, f) ==
    IF S = {} THEN 0
    ELSE LET x == CHOOSE y \in S : TRUE IN f[x] + SumOver(S \ {x}, f)


Max(S) == CHOOSE x \in S : \A y \in S : y <= x

Range(q) == {q[k] : k \in 1..Len(q)}

\* ------------------------------------------------------------------ state
VARIABLES
    db,              \* the committed store: sources.last_processed_sentence (last),
                     \* word_sources.occurrence_count per word (occ), and how often the
                     \* links of each sentence were committed (applied)
    faults,          \* database operations that have failed so far
    workers,         \* Ingester.Workers of the calls
    poolKind,        \* "real": NewWorkerPool; "failing": the failingPool of the tests
    callerCancelled, \* the caller's context is cancelled
    cancelledAtCall, \* history: it was already cancelled when Ingest was called
    ctxDone,         \* the derived context ctx of Ingest is done
    mpc,             \* position of the Ingest call itself (producer loop and shutdown)
    lastProcessed,   \* Ingest's local lastProcessed
    i,               \* producer loop index
    early,           \* error of the early "return 0, err", Nil if none is pending
    jobs,            \* WorkerPool.jobs: queued sentence indices
    poolClosed,      \* WorkerPool.closed
    sending,         \* indices whose job a worker has processed and is sending
    liveWorkers,     \* worker goroutines started and not yet returned
    resultCh,        \* indices of the results in resultCh
    closedResultCh,  \* resultCh is closed
    resultChCloses,  \* history: how often this call closed resultCh
    cpc,             \* position of the consumer goroutine
    buffer,          \* reorder buffer: indices of the buffered results
    nextIdx,         \* consumer cursor
    doneCh,          \* value buffered in doneCh, "empty" if none
    buf,             \* BatchWriter.buf: buffered callbacks (their sentence indices)
    bwClosed,        \* BatchWriter.closed
    commitCh,        \* BatchWriter.commitCh: batches waiting for the committer
    commitClosed,    \* commitCh is closed
    bwCtxDone,       \* BatchWriter.ctx is done
    lastErr,         \* BatchWriter.lastErr
    batchErr,        \* Ingest's batchErr, set through OnError
    tickerExited,    \* BatchWriter.loop has returned
    cmpc,            \* position of the committer goroutine
    tx,              \* the open transaction: working copy, writes made, callbacks left
    totalLinks,      \* Ingest's totalLinks
    consumerErr,     \* Ingest's consumerErr
    retCount,        \* the count returned by Ingest
    retErr,          \* the error returned by Ingest
    dbAtStart,       \* history: the store when the Ingest call started
    submitted,       \* history: indices handed to BatchWriter.Submit, in order
    committedRun,    \* history: indices whose callback was committed in this call
    lastCommit,      \* history: the writes and checkpoint of the last committed transaction
    batchFailed,     \* history: a batch of this call failed
    queue,           \* capacity of WorkerPool.jobs
    poolStarted,     \* WorkerPool.Start was called
    closeMu,         \* WorkerPool.closeMu: 0 when unlocked, else its holder
    spc,             \* position of each goroutine calling WorkerPool.Submit
    sret,            \* what its Submit returned, "none" before it returns
    afterClose,      \* history: its Submit began after a Close had returned
    clpc,            \* position of the goroutine calling WorkerPool.Close
    cl2pc,           \* position of a goroutine calling Close while that Close waits
    closeReturns,    \* history: calls of WorkerPool.Close that have returned
    ran,             \* history: how often each job of the stand-alone pool was run
    panicked,        \* history: a send on the closed job queue panicked
    cap,             \* BatchWriter.cap
    closeRet,        \* what the calls of BatchWriter.Close on its own returned, in order
    submitRet,       \* what the last BatchWriter.Submit on its own returned
    bwCancelled,     \* history: bw.cancel() was called before Close
    flushed,         \* history: the batches flushLocked sent to commitCh, in order
    dropped,         \* history: the batches flushLocked dropped, in order
    onErrors,        \* history: the errors passed to OnError, in order
    txLog,           \* history: per batch taken by the committer, the callbacks run
    store,           \* the tables words, sources, sentences, word_sources, word_contexts
    foreignKeys,     \* PRAGMA foreign_keys of the connection
    lastLink,        \* the ids, increment and error of the last LinkWordToSource call
    linkHist,        \* history: per (word, source) pair, the sum of the increments of
                     \* its successful calls and the sentences of the latest one
    linkFailures,    \* history: LinkWordToSource calls that returned an error
    wcall,           \* position and arguments of each CreateOrGetWord caller
    wordRets,        \* history: the (trimmed word, lemma, language, id) returned
    numWordCalls,    \* CreateOrGetWord calls made so far
    scall,           \* position, attempt and result of each CreateOrGetSource caller
    tokens,          \* Sentence.Tokens of the sentence ingested on its own
    senText,         \* its Sentence.Text
    senpc,           \* how far it is: "input", "processed", "written"
    senWords,        \* processedSentence.Words
    senLinks,        \* what its callback added to totalLinks
    senErr,          \* what its callback returned
    linkLog,         \* history: the LinkWordToSource calls of its callback, in order
    storeBefore,     \* history: the tables before its callback ran
    dict,            \* the JMdict entries given to NewImporter
    lookup           \* the arguments and the result of the last Importer.Lookup

vars == << db, faults, workers, poolKind, callerCancelled, cancelledAtCall,
           ctxDone, mpc, lastProcessed, i,
           early, jobs, poolClosed, sending, liveWorkers, resultCh, closedResultCh,
           resultChCloses,
           cpc, buffer, nextIdx, doneCh, buf, bwClosed, commitCh, commitClosed,
           bwCtxDone, lastErr, batchErr, tickerExited, cmpc, tx, totalLinks,
           consumerErr, retCount, retErr, dbAtStart, submitted, committedRun,
           lastCommit, batchFailed,
           queue, poolStarted, closeMu, spc, sret, afterClose, clpc, cl2pc, closeReturns,
           ran,
           panicked, cap, closeRet, submitRet, bwCancelled, flushed, dropped, onErrors, txLog,
           store, foreignKeys, lastLink, linkHist, linkFailures, wcall, wordRets,
           numWordCalls, scall, tokens, senText, senpc, senWords, senLinks, senErr,
           linkLog, storeBefore, dict, lookup >>

Indices == 0..(NumSentences - 1)
Submitters == 1..NumSubmitters
QueueCap == workers * QueueFactor
NoTx == [db |-> [last |-> -1, occ |-> [w \in WordUniverse |-> 0],
                 applied |-> [j \in Indices |-> 0]],
         ops |-> <<>>, batch |-> <<>>]
NoCommit == [ops |-> <<>>, last |-> -1]

\* The store after sentences 0..p were ingested once.
StoreAfter(p) ==
    [last |-> p,
     occ |-> [w \in WordUniverse |->
                SumOver({j \in Indices : j <= p},
                        [j \in Indices |-> wordCounts(sentences[j], w)])],
     applied |-> [j \in Indices |-> IF j <= p THEN 1 ELSE 0]]


\* ------------------------------------------------------------------ store adapter
\* The earlier draft of the link upsert: occurrence_count + 1 whatever the increment.
LinkWordToSourcePlusOne(d, word, incrementAmount) ==
    [d EXCEPT !.occ[word] = IF @ = 0 THEN incrementAmount ELSE @ + 1]

\* LinkWordToSource: insert the (word, source) row with the increment, or add the
\* increment to the occurrence_count of the existing row.
LinkWordToSource(d, word, incrementAmount) ==
    [d EXCEPT !.occ[word] = IF @ = 0 THEN incrementAmount ELSE @ + incrementAmount]

\* UpdateSourceProgress: UPDATE sources SET last_processed_sentence = index.
UpdateSourceProgress(d, index) == [d EXCEPT !.last = index]

\* GetSourceProgress: the stored last_processed_sentence.
GetSourceProgress(d) == d.last

\* ------------------------------------------------------------------ write callback
RECURSIVE LinkWords(_, _, _)
LinkWords(d, words, n) ==
    IF n = 0 THEN d
    ELSE LinkWordToSource(LinkWords(d, words, n - 1), words[n].Word, words[n].Count)

\* The writes the callback of sentence idx records in the transaction, in order.
CallbackOps(idx) ==
    [k \in 1..Len(processSentence(idx)) |-> [op |-> "link", idx |-> idx]]
        \o << [op |-> "progress", idx |-> idx] >>

\* A callback that links the words of sentence idx and leaves the checkpoint to a
\* later write (the per-batch checkpoint variant).
WriteCallbackNoCheckpoint(t, idx) ==
    LET words == processSentence(idx)
        linked == LinkWords(t.db, words, Len(words))
    IN  [db |-> [linked EXCEPT !.applied[idx] = @ + 1],
         ops |-> t.ops \o [k \in 1..Len(words) |-> [op |-> "link", idx |-> idx]],
         batch |-> Tail(t.batch)]

\* The callback the consumer submits for sentence idx, run to its end on the
\* transaction t: link every word, then checkpoint the sentence.
WriteCallback(t, idx) ==
    LET words == processSentence(idx)
        linked == LinkWords(t.db, words, Len(words))
        marked == [linked EXCEPT !.applied[idx] = @ + 1]
    IN  [db |-> UpdateSourceProgress(marked, idx),
         ops |-> t.ops \o CallbackOps(idx),
         batch |-> Tail(t.batch)]

\* ------------------------------------------------------------------ batch writer
\* A writer that keeps the last error it saw.
LastErr(cur, e) == IF e # Nil THEN e ELSE cur

\* The first error wins: lastErr and batchErr are set only while nil.
FirstErr(cur, e) == IF cur = Nil THEN e ELSE cur

\* A flush that puts the batch at the head of the commit channel.
flushLockedAtHead(batch, ch, done) ==
    {[commitCh |-> << batch >> \o ch, err |-> Nil] :
        x \in IF Len(ch) < CommitChCap THEN {1} ELSE {}}
    \cup
    {[commitCh |-> ch, err |-> ErrDropped(Len(batch))] : x \in IF done THEN {1} ELSE {}}

\* A flush that reports the drop and hands the batch to the committer all the same.
flushLockedKeepsDropped(batch, ch, done) ==
    {[commitCh |-> Append(ch, batch), err |-> Nil] :
        x \in IF Len(ch) < CommitChCap THEN {1} ELSE {}}
    \cup
    {[commitCh |-> Append(ch, batch), err |-> ErrDropped(Len(batch))] :
        x \in IF done THEN {1} ELSE {}}

\* flushLocked on the detached batch: the ways its select can go.  The send is
\* possible while the commit channel has room, the drop once bw.ctx is done.
flushLocked(batch, ch, done) ==
    {[commitCh |-> Append(ch, batch), err |-> Nil] :
        x \in IF Len(ch) < CommitChCap THEN {1} ELSE {}}
    \cup
    {[commitCh |-> ch, err |-> ErrDropped(Len(batch))] : x \in IF done THEN {1} ELSE {}}

\* BatchWriter.Submit on an open writer: append, flush when the buffer is full.
Submit(w) ==
    LET nb == Append(buf, w)
    IN  IF Len(nb) >= cap
        THEN {[buf |-> <<>>, commitCh |-> o.commitCh, err |-> o.err, batch |-> nb] :
                o \in flushLocked(nb, commitCh, bwCtxDone)}
        ELSE {[buf |-> nb, commitCh |-> commitCh, err |-> Nil, batch |-> <<>>]}

\* A flush that leaves the buffered callbacks where they are.
FlushBufferedNothing == {[buf |-> buf, commitCh |-> commitCh, err |-> Nil, batch |-> <<>>]}

\* A flush of whatever is buffered (ticker loop, Close).
FlushBuffered ==
    IF buf = <<>>
    THEN {[buf |-> buf, commitCh |-> commitCh, err |-> Nil, batch |-> <<>>]}
    ELSE {[buf |-> <<>>, commitCh |-> o.commitCh, err |-> o.err, batch |-> buf] :
            o \in flushLocked(buf, commitCh, bwCtxDone)}

\* Install the outcome o of a Submit or flush; a drop is recorded in lastErr and
\* reported through OnError.
BwInstall(o) ==
    /\ buf' = o.buf
    /\ commitCh' = o.commitCh
    /\ lastErr' = FirstErr(lastErr, o.err)
    /\ batchErr' = FirstErr(batchErr, o.err)
    /\ batchFailed' = (batchFailed \/ o.err # Nil)
    /\ onErrors' = IF o.err # Nil THEN Append(onErrors, o.err) ELSE onErrors
    /\ flushed' = IF o.batch # <<>> /\ o.err = Nil THEN Append(flushed, o.batch) ELSE flushed
    /\ dropped' = IF o.batch # <<>> /\ o.err # Nil THEN Append(dropped, o.batch) ELSE dropped

\* A committer that records the error of a failed batch without calling OnError.
RecordBatchErrorUnreported(e) ==
    /\ lastErr' = FirstErr(lastErr, e)
    /\ batchFailed' = TRUE
    /\ UNCHANGED << batchErr, onErrors >>

\* The committer records the error of a failed batch and calls OnError.
RecordBatchError(e) ==
    /\ lastErr' = FirstErr(lastErr, e)
    /\ batchErr' = FirstErr(batchErr, e)
    /\ batchFailed' = TRUE
    /\ onErrors' = Append(onErrors, e)

\* ------------------------------------------------------------------ Ingest
\* A call that ignores the checkpoint and starts from the first sentence.
StartIdxZero(lp) == 0

\* A resume that starts at the checkpointed sentence itself.
StartIdxAtCheckpoint(lp) == IF lp >= 0 THEN lp ELSE 0

StartIdx(lp) == lp + 1

\* A consumer that never looks at ctx.
ctxErrIgnored(done) == Nil

\* ctx.Err(): Canceled once ctx is done.
ctxErr(done) == IF done THEN Canceled ELSE Nil

\* A consumer that hands on the lowest buffered result without waiting for nextIdx.
DrainItemLowest(b, n) == IF b = {} THEN {} ELSE {CHOOSE x \in b : \A y \in b : x <= y}

\* A consumer that hands on any buffered result.
DrainItemAny(b, n) == b

\* item, ok := buffer[nextIdx]: the buffered result the consumer may hand on next.
DrainItem(b, n) == IF n \in b THEN {n} ELSE {}

\* A return that looks at the consumer's error only.
ReturnErrorConsumerOnly(cErr, closeErr, bErr) == cErr

\* The error Ingest returns on its normal path.
ReturnError(cErr, closeErr, bErr) ==
    IF cErr # Nil THEN cErr ELSE IF closeErr # Nil THEN closeErr ELSE bErr

\* The state of a call that has not started yet.
FreshCall ==
    /\ ctxDone' = FALSE
    /\ cancelledAtCall' = FALSE
    /\ mpc' = "start"
    /\ lastProcessed' = -1
    /\ i' = 0
    /\ early' = Nil
    /\ jobs' = <<>>
    /\ poolClosed' = FALSE
    /\ sending' = {}
    /\ liveWorkers' = 0
    /\ resultCh' = <<>>
    /\ closedResultCh' = FALSE
    /\ resultChCloses' = 0
    /\ cpc' = "notstarted"
    /\ buffer' = {}
    /\ nextIdx' = 0
    /\ doneCh' = "empty"
    /\ buf' = <<>>
    /\ bwClosed' = FALSE
    /\ commitCh' = <<>>
    /\ commitClosed' = FALSE
    /\ bwCtxDone' = FALSE
    /\ lastErr' = Nil
    /\ batchErr' = Nil
    /\ tickerExited' = FALSE
    /\ cmpc' = "idle"
    /\ tx' = NoTx
    /\ totalLinks' = 0
    /\ consumerErr' = Nil
    /\ retCount' = 0
    /\ retErr' = Nil
    /\ submitted' = <<>>
    /\ committedRun' = {}
    /\ lastCommit' = NoCommit
    /\ batchFailed' = FALSE
    /\ closeRet' = <<>>
    /\ submitRet' = "none"
    /\ bwCancelled' = FALSE
    /\ flushed' = <<>>
    /\ dropped' = <<>>
    /\ onErrors' = <<>>
    /\ txLog' = <<>>

\* Nothing of a call has happened yet.
Quiet ==
    /\ ctxDone = FALSE
    /\ cancelledAtCall = FALSE
    /\ lastProcessed = -1
    /\ i = 0
    /\ early = Nil
    /\ jobs = <<>>
    /\ poolClosed = FALSE
    /\ sending = {}
    /\ liveWorkers = 0
    /\ resultCh = <<>>
    /\ closedResultCh = FALSE
    /\ resultChCloses = 0
    /\ cpc = "notstarted"
    /\ buffer = {}
    /\ nextIdx = 0
    /\ doneCh = "empty"
    /\ buf = <<>>
    /\ bwClosed = FALSE
    /\ commitCh = <<>>
    /\ commitClosed = FALSE
    /\ bwCtxDone = FALSE
    /\ lastErr = Nil
    /\ batchErr = Nil
    /\ cmpc = "idle"
    /\ tx = NoTx
    /\ totalLinks = 0
    /\ consumerErr = Nil
    /\ retCount = 0
    /\ retErr = Nil
    /\ dbAtStart = db
    /\ submitted = <<>>
    /\ committedRun = {}
    /\ lastCommit = NoCommit
    /\ batchFailed = FALSE
    /\ poolStarted = FALSE
    /\ closeMu = 0
    /\ spc = [s \in Submitters |-> "idle"]
    /\ sret = [s \in Submitters |-> "none"]
    /\ afterClose = [s \in Submitters |-> FALSE]
    /\ clpc = "idle"
    /\ cl2pc = "idle"
    /\ closeReturns = 0
    /\ ran = [s \in Submitters |-> 0]
    /\ panicked = FALSE
    /\ closeRet = <<>>
    /\ submitRet = "none"
    /\ bwCancelled = FALSE
    /\ flushed = <<>>
    /\ dropped = <<>>
    /\ onErrors = <<>>
    /\ txLog = <<>>

\* ------------------------------------------------------------------ store tables
\* Texts that the store trims are sequences of one-character strings.
Space == " "

RECURSIVE TrimLeft(_)
TrimLeft(s) == IF s # <<>> /\ Head(s) = Space THEN TrimLeft(Tail(s)) ELSE s

RECURSIVE TrimRight(_)
TrimRight(s) ==
    IF s # <<>> /\ s[Len(s)] = Space THEN TrimRight(SubSeq(s, 1, Len(s) - 1)) ELSE s

\* strings.TrimSpace
TrimSpace(s) == TrimRight(TrimLeft(s))

\* A row's id is its position in the table: the ids are AUTOINCREMENT and no row
\* of these tables is ever deleted.
EmptyStore ==
    [words |-> <<>>, sources |-> <<>>, sentences |-> <<>>, word_sources |-> <<>>,
     word_contexts |-> << >>]

\* A nullable column holds << >> for NULL and << v >> for the value v.
NULL == << >>

ErrEmptyWord == "word must be non-empty"
ErrEmptySourceType == "sourceType must be non-empty"
ErrRetries == "could not create or get source after 3 retries"
ErrWordID == "wordID must be positive"
ErrSourceID == "sourceID must be positive"
ErrIncrement == "incrementAmount must be positive"
ErrUnique == "UNIQUE constraint failed: sources.url, sources.title, sources.author"
ErrForeignKey == "FOREIGN KEY constraint failed"
ErrNotNull == "NOT NULL constraint failed: word_contexts.sentence_id"

\* Mutation of isUniqueConstraintErr: no error is taken for a conflict.
isUniqueConstraintErrNever(err) == FALSE

\* isUniqueConstraintErr: the message contains "unique" or "constraint failed".
isUniqueConstraintErr(err) == err \in {ErrUnique, ErrForeignKey, ErrNotNull}

\* First row of a table that the WHERE clause or the conflict target selects (hit
\* says so row by row), 0 (sql.ErrNoRows) if there is none.
RowId(hit) ==
    IF \E k \in DOMAIN hit : hit[k]
    THEN CHOOSE k \in DOMAIN hit : hit[k] /\ \A j \in 1..(k - 1) : ~hit[j]
    ELSE 0

\* COALESCE(NULLIF(excluded, ''), current)
CoalesceNonEmpty(excluded, current) == IF excluded # "" THEN excluded ELSE current

\* Mutation of CreateOrGetWord: a plain INSERT of the word as given.
CreateOrGetWordInsertOnly(t, word, lemma, reading, definitions, language) ==
    [t |-> [t EXCEPT !.words = Append(@, [word |-> word, lemma |-> lemma,
                                          language |-> language,
                                          pronunciation |-> reading,
                                          definitions |-> definitions])],
     id |-> Len(t.words) + 1, err |-> Nil]

\* CreateOrGetWord: INSERT INTO words ... ON CONFLICT(word, lemma, language) DO
\* UPDATE ... RETURNING id, on the trimmed word.
CreateOrGetWord(t, word, lemma, reading, definitions, language) ==
    LET trimmedWord == TrimSpace(word)
        Same(r) == r.word = trimmedWord /\ r.lemma = lemma /\ r.language = language
        id == RowId([rowid \in DOMAIN t.words |-> Same(t.words[rowid])])
    IN  IF trimmedWord = <<>> THEN [t |-> t, id |-> 0, err |-> ErrEmptyWord]
        ELSE IF id # 0
        THEN [t |-> [t EXCEPT !.words[id].pronunciation = CoalesceNonEmpty(reading, @),
                              !.words[id].definitions = CoalesceNonEmpty(definitions, @)],
              id |-> id, err |-> Nil]
        ELSE [t |-> [t EXCEPT !.words = Append(@, [word |-> trimmedWord, lemma |-> lemma,
                                                   language |-> language,
                                                   pronunciation |-> reading,
                                                   definitions |-> definitions])],
              id |-> Len(t.words) + 1, err |-> Nil]

\* CreateOrGetSource, the SELECT: the id of the row with this url, title and
\* author, 0 for sql.ErrNoRows.
SelectSource(t, title, author, url) ==
    LET Same(r) == r.url = url /\ r.title = title /\ r.author = author
    IN  RowId([rowid \in DOMAIN t.sources |-> Same(t.sources[rowid])])

\* CreateOrGetSource, the INSERT: idx_sources_unique refuses a second row with the
\* same url, title and author.
InsertSource(t, sourceType, title, author, url) ==
    IF SelectSource(t, title, author, url) # 0
    THEN [t |-> t, id |-> 0, err |-> ErrUnique]
    ELSE [t |-> [t EXCEPT !.sources = Append(@, [source_type |-> sourceType,
                                                 title |-> title, author |-> author,
                                                 url |-> url,
                                                 last_processed_sentence |-> -1])],
          id |-> Len(t.sources) + 1, err |-> Nil]

\* getOrCreateSentence: the id of the trimmed text in sentences, interning it when
\* it is missing; 0 for an empty text.
getOrCreateSentence(t, text) ==
    LET trimmed == TrimSpace(text)
        Same(r) == r = trimmed
        id == RowId([rowid \in DOMAIN t.sentences |-> Same(t.sentences[rowid])])
    IN  IF trimmed = <<>> THEN [t |-> t, id |-> 0]
        ELSE IF id # 0 THEN [t |-> t, id |-> id]
        ELSE [t |-> [t EXCEPT !.sentences = Append(@, trimmed)],
              id |-> Len(t.sentences) + 1]

\* nullableInt64: nil for 0, else the value.
nullableInt64(v) == IF v = 0 THEN NULL ELSE << v >>

\* Mutation of UpsertWordSource: the conflict branch adds the increment and keeps
\* the sentences of the row.
UpsertWordSourceKeepsSentences(t, wordID, sourceID, ctx, ex, incrementAmount) ==
    LET Same(r) == r.word_id = wordID /\ r.source_id = sourceID
        id == RowId([rowid \in DOMAIN t.word_sources |-> Same(t.word_sources[rowid])])
    IN  IF id # 0
        THEN [t |-> [t EXCEPT !.word_sources[id].occurrence_count = @ + incrementAmount],
              id |-> id]
        ELSE [t |-> [t EXCEPT !.word_sources =
                        Append(@, [word_id |-> wordID, source_id |-> sourceID,
                                   context_sentence_id |-> ctx,
                                   example_sentence_id |-> ex,
                                   occurrence_count |-> incrementAmount])],
              id |-> Len(t.word_sources) + 1]

\* The word_sources upsert of LinkWordToSource, RETURNING id.
UpsertWordSource(t, wordID, sourceID, ctx, ex, incrementAmount) ==
    LET Same(r) == r.word_id = wordID /\ r.source_id = sourceID
        id == RowId([rowid \in DOMAIN t.word_sources |-> Same(t.word_sources[rowid])])
    IN  IF id # 0
        THEN [t |-> [t EXCEPT !.word_sources[id].occurrence_count = @ + incrementAmount,
                              !.word_sources[id].context_sentence_id = ctx,
                              !.word_sources[id].example_sentence_id = ex],
              id |-> id]
        ELSE [t |-> [t EXCEPT !.word_sources =
                        Append(@, [word_id |-> wordID, source_id |-> sourceID,
                                   context_sentence_id |-> ctx,
                                   example_sentence_id |-> ex,
                                   occurrence_count |-> incrementAmount])],
              id |-> Len(t.word_sources) + 1]

\* The word_contexts rows of a word_sources row.
ContextsOf(t, wordSourceID) ==
    {k \in 1..Len(t.word_contexts) : t.word_contexts[k].word_source_id = wordSourceID}

\* Mutation of InsertWordContext: the insert without the COUNT(*) < 5 guard.
InsertWordContextUncapped(t, wordSourceID, sentence) ==
    LET Same(r) == r.word_source_id = wordSourceID /\ << r.sentence_id >> = sentence
    IN  IF sentence = NULL THEN [t |-> t, err |-> ErrNotNull]
        ELSE IF RowId([rowid \in DOMAIN t.word_contexts |-> Same(t.word_contexts[rowid])]) # 0 THEN [t |-> t, err |-> Nil]
        ELSE [t |-> [t EXCEPT !.word_contexts =
                        Append(@, [word_source_id |-> wordSourceID,
                                   sentence_id |-> sentence[1]])],
              err |-> Nil]

\* The word_contexts insert of LinkWordToSource: INSERT ... SELECT ?, ? WHERE
\* (SELECT COUNT(*) ...) < 5 ON CONFLICT DO NOTHING.  With 5 rows stored the
\* SELECT yields no row; a NULL sentence_id violates NOT NULL, which ON CONFLICT
\* does not absorb; a row that UNIQUE(word_source_id, sentence_id) refuses is
\* skipped.
InsertWordContext(t, wordSourceID, sentence) ==
    LET Same(r) == r.word_source_id = wordSourceID /\ << r.sentence_id >> = sentence
    IN  IF Cardinality(ContextsOf(t, wordSourceID)) >= ContextCap
        THEN [t |-> t, err |-> Nil]
        ELSE IF sentence = NULL THEN [t |-> t, err |-> ErrNotNull]
        ELSE IF RowId([rowid \in DOMAIN t.word_contexts |-> Same(t.word_contexts[rowid])]) # 0 THEN [t |-> t, err |-> Nil]
        ELSE [t |-> [t EXCEPT !.word_contexts =
                        Append(@, [word_source_id |-> wordSourceID,
                                   sentence_id |-> sentence[1]])],
              err |-> Nil]

\* Mutation of LinkWordToSourceRows: the arguments are not validated.
LinkWordToSourceUnvalidated(t, fk, wordID, sourceID, context, example, incrementAmount) ==
    LET c == getOrCreateSentence(t, context)
        x == getOrCreateSentence(c.t, example)
        u == UpsertWordSource(x.t, wordID, sourceID, nullableInt64(c.id),
                              nullableInt64(x.id), incrementAmount)
    IN  InsertWordContext(u.t, u.id, nullableInt64(c.id))

\* LinkWordToSource on the tables, each statement committed on its own (the
\* executor is the database handle): validation, the two sentences, the
\* word_sources upsert, the capped word_contexts insert.  fk: the connection
\* enforces foreign keys, and the upsert of a word or source that does not exist
\* fails.
LinkWordToSourceRows(t, fk, wordID, sourceID, context, example, incrementAmount) ==
    LET c == getOrCreateSentence(t, context)
        x == getOrCreateSentence(c.t, example)
        u == UpsertWordSource(x.t, wordID, sourceID, nullableInt64(c.id),
                              nullableInt64(x.id), incrementAmount)
    IN  IF wordID <= 0 THEN [t |-> t, err |-> ErrWordID]
        ELSE IF sourceID <= 0 THEN [t |-> t, err |-> ErrSourceID]
        ELSE IF incrementAmount < 1 THEN [t |-> t, err |-> ErrIncrement]
        ELSE IF fk /\ (wordID > Len(t.words) \/ sourceID > Len(t.sources))
        THEN [t |-> x.t, err |-> ErrForeignKey]
        ELSE InsertWordContext(u.t, u.id, nullableInt64(c.id))

WordCallers == 1..NumWordCallers
SourceCallers == 1..NumSourceCallers
NoLink == [wordID |-> 0, sourceID |-> 0, incrementAmount |-> 0, err |-> "none"]
IdleCall == [pc |-> "idle"]

\* No store function has been called on its own.
CallsQuiet ==
    /\ lastLink = NoLink
    /\ linkHist = << >>
    /\ linkFailures = 0
    /\ wcall = [p \in WordCallers |-> IdleCall]
    /\ wordRets = {}
    /\ numWordCalls = 0
    /\ scall = [p \in SourceCallers |-> IdleCall]

\* The tables are empty and no store function has been called.
StoreQuiet ==
    /\ store = EmptyStore
    /\ foreignKeys = TRUE
    /\ CallsQuiet

NoLookup == [word |-> << >>, lemma |-> << >>, pronunciation |-> << >>, called |-> FALSE,
             matches |-> << >>]

\* No sentence is ingested on its own.
SentenceQuiet ==
    /\ tokens = << >>
    /\ senText = << >>
    /\ senpc = "none"
    /\ senWords = << >>
    /\ senLinks = 0
    /\ senErr = Nil
    /\ linkLog = << >>
    /\ storeBefore = EmptyStore

\* No dictionary is loaded.
DictQuiet ==
    /\ dict = << >>
    /\ lookup = NoLookup

\* An Ingest call is about to be made on an empty store.
Init ==
    /\ db = StoreAfter(-1)
    /\ faults = 0
    /\ workers \in 1..MaxWorkers
    /\ poolKind \in {"real", "failing"}
    /\ callerCancelled \in BOOLEAN
    /\ mpc = "start"
    /\ queue = workers * QueueFactor
    /\ cap = BatchSize
    /\ tickerExited = FALSE
    /\ Quiet
    /\ StoreQuiet
    /\ SentenceQuiet
    /\ DictQuiet

\* NewWorkerPool(workers, queue) on its own, as the pool's tests use it.
InitPool ==
    /\ db = StoreAfter(-1)
    /\ faults = 0
    /\ workers \in 1..MaxWorkers
    /\ poolKind = "real"
    /\ callerCancelled = FALSE
    /\ mpc = "pool"
    /\ queue \in 1..MaxQueue
    /\ cap = BatchSize
    /\ tickerExited = FALSE
    /\ Quiet
    /\ StoreQuiet
    /\ SentenceQuiet
    /\ DictQuiet

\* NewBatchWriter(db, bufferSize, flushInterval) on its own, as the writer's tests
\* use it; a flushInterval of 0 starts no ticker loop.
InitBatchWriter ==
    /\ db = StoreAfter(-1)
    /\ faults = 0
    /\ workers = 1
    /\ poolKind = "real"
    /\ callerCancelled = FALSE
    /\ mpc = "bwClose"
    /\ queue = workers * QueueFactor
    /\ cap \in 1..BatchSize
    /\ tickerExited \in BOOLEAN
    /\ Quiet
    /\ StoreQuiet
    /\ SentenceQuiet
    /\ DictQuiet

\* ------------------------------------------------------------------ Ingest: producer
\* Ingest up to wp.Start: read the checkpoint (an unreadable checkpoint counts as -1),
\* return (0, nil) when nothing is left, else set the pipeline up and start the
\* consumer, the workers, the committer and the ticker.  context.WithCancel on a
\* cancelled parent returns a context that is done already.
IngestStart ==
    /\ mpc = "start"
    /\ \E readOk \in BOOLEAN :
        /\ readOk \/ faults < MaxFaults
        /\ faults' = IF readOk THEN faults ELSE faults + 1
        /\ lastProcessed' = IF readOk THEN GetSourceProgress(db) ELSE -1
    /\ IF StartIdx(lastProcessed') >= totalSentences
       THEN /\ mpc' = "returned"
            /\ UNCHANGED << ctxDone, cancelledAtCall, i, liveWorkers, cpc, nextIdx >>
       ELSE /\ mpc' = "check"
            /\ ctxDone' = callerCancelled
            /\ cancelledAtCall' = callerCancelled
            /\ i' = StartIdx(lastProcessed')
            /\ liveWorkers' = IF poolKind = "real" THEN workers ELSE 0
            /\ cpc' = "top"
            /\ nextIdx' = StartIdx(lastProcessed')
    /\ UNCHANGED << db, workers, poolKind, callerCancelled, early, jobs, poolClosed,
                    sending, resultCh, closedResultCh, resultChCloses, buffer, doneCh, buf,
                    bwClosed, commitCh, commitClosed, bwCtxDone, lastErr, batchErr,
                    tickerExited, cmpc, tx, totalLinks, consumerErr, retCount, retErr,
                    dbAtStart, submitted, committedRun, lastCommit, batchFailed, queue,
                    poolStarted, closeMu, spc, sret, afterClose, clpc, cl2pc, closeReturns,
                    ran, panicked, cap, closeRet, submitRet, bwCancelled, flushed, dropped,
                    onErrors, txLog, store, foreignKeys, lastLink, linkHist, linkFailures,
                    wcall, wordRets, numWordCalls, scall, tokens, senText, senpc, senWords,
                    senLinks, senErr, linkLog, storeBefore, dict, lookup >>

\* The head of the producer loop: leave it at the end of the list or once ctx is done.
ProducerCheck ==
    /\ mpc = "check"
    /\ mpc' = IF i >= totalSentences \/ ctxDone THEN "closePool" ELSE "submit"
    /\ UNCHANGED << db, faults, workers, poolKind, callerCancelled, cancelledAtCall,
                    ctxDone, lastProcessed, i, early, jobs, poolClosed, sending,
                    liveWorkers, resultCh, closedResultCh, resultChCloses, cpc, buffer,
                    nextIdx, doneCh, buf, bwClosed, commitCh, commitClosed, bwCtxDone,
                    lastErr, batchErr, tickerExited, cmpc, tx, totalLinks, consumerErr,
                    retCount, retErr, dbAtStart, submitted, committedRun, lastCommit,
                    batchFailed, queue, poolStarted, closeMu, spc, sret, afterClose, clpc,
                    cl2pc, closeReturns, ran, panicked, cap, closeRet, submitRet,
                    bwCancelled, flushed, dropped, onErrors, txLog, store, foreignKeys,
                    lastLink, linkHist, linkFailures, wcall, wordRets, numWordCalls, scall,
                    tokens, senText, senpc, senWords, senLinks, senErr, linkLog,
                    storeBefore, dict, lookup >>

\* wp.SubmitCtx(ctx, job) on the worker pool: the job is queued when the queue has
\* room, and SubmitCtx gives up with ctx.Err() when ctx is done.
SubmitCtx(job) ==
    \/ /\ Len(jobs) < queue
       /\ jobs' = Append(jobs, job)
       /\ i' = i + 1
       /\ mpc' = "check"
    \/ /\ ctxDone
       /\ mpc' = "closePool"
       /\ UNCHANGED << jobs, i >>

\* Mutation of CleanupCloses: a deferred cleanup that closes resultCh whatever the flag.
CleanupClosesAlways(flag) == 1

\* The deferred cleanup: if !closedResultCh { close(resultCh) }.  The number of
\* times it closes resultCh.
CleanupCloses(flag) == IF flag THEN 0 ELSE 1

ProducerSubmit ==
    /\ mpc = "submit"
    /\ poolKind = "real"
    /\ SubmitCtx(i)
    /\ UNCHANGED << db, faults, workers, poolKind, callerCancelled, cancelledAtCall,
                    ctxDone, lastProcessed, early, poolClosed, sending, liveWorkers,
                    resultCh, closedResultCh, resultChCloses, cpc, buffer, nextIdx, doneCh,
                    buf, bwClosed, commitCh, commitClosed, bwCtxDone, lastErr, batchErr,
                    tickerExited, cmpc, tx, totalLinks, consumerErr, retCount, retErr,
                    dbAtStart, submitted, committedRun, lastCommit, batchFailed, queue,
                    poolStarted, closeMu, spc, sret, afterClose, clpc, cl2pc, closeReturns,
                    ran, panicked, cap, closeRet, submitRet, bwCancelled, flushed, dropped,
                    onErrors, txLog, store, foreignKeys, lastLink, linkHist, linkFailures,
                    wcall, wordRets, numWordCalls, scall, tokens, senText, senpc, senWords,
                    senLinks, senErr, linkLog, storeBefore, dict, lookup >>

\* failingPool.SubmitCtx returns an error that is neither ctx.Err() nor ErrPoolClosed:
\* Ingest returns (0, err).  Its deferred calls run last in, first out: cancel(),
\* then the cleanup, which closes the pool and resultCh and then the batch writer.
ProducerSubmitFails ==
    /\ mpc = "submit"
    /\ poolKind = "failing"
    /\ early' = ErrSubmit
    /\ ctxDone' = TRUE
    /\ poolClosed' = TRUE
    /\ closedResultCh' = TRUE
    /\ resultChCloses' = resultChCloses + CleanupCloses(closedResultCh)
    /\ mpc' = "bwClose"
    /\ UNCHANGED << db, faults, workers, poolKind, callerCancelled, cancelledAtCall,
                    lastProcessed, i, jobs, sending, liveWorkers, resultCh, cpc, buffer,
                    nextIdx, doneCh, buf, bwClosed, commitCh, commitClosed, bwCtxDone,
                    lastErr, batchErr, tickerExited, cmpc, tx, totalLinks, consumerErr,
                    retCount, retErr, dbAtStart, submitted, committedRun, lastCommit,
                    batchFailed, queue, poolStarted, closeMu, spc, sret, afterClose, clpc,
                    cl2pc, closeReturns, ran, panicked, cap, closeRet, submitRet,
                    bwCancelled, flushed, dropped, onErrors, txLog, store, foreignKeys,
                    lastLink, linkHist, linkFailures, wcall, wordRets, numWordCalls, scall,
                    tokens, senText, senpc, senWords, senLinks, senErr, linkLog,
                    storeBefore, dict, lookup >>

\* wp.Close after the loop: mark the pool closed and close the job queue.
PoolClose ==
    /\ mpc = "closePool"
    /\ poolClosed' = TRUE
    /\ mpc' = "waitPool"
    /\ UNCHANGED << db, faults, workers, poolKind, callerCancelled, cancelledAtCall,
                    ctxDone, lastProcessed, i, early, jobs, sending, liveWorkers, resultCh,
                    closedResultCh, resultChCloses, cpc, buffer, nextIdx, doneCh, buf,
                    bwClosed, commitCh, commitClosed, bwCtxDone, lastErr, batchErr,
                    tickerExited, cmpc, tx, totalLinks, consumerErr, retCount, retErr,
                    dbAtStart, submitted, committedRun, lastCommit, batchFailed, queue,
                    poolStarted, closeMu, spc, sret, afterClose, clpc, cl2pc, closeReturns,
                    ran, panicked, cap, closeRet, submitRet, bwCancelled, flushed, dropped,
                    onErrors, txLog, store, foreignKeys, lastLink, linkHist, linkFailures,
                    wcall, wordRets, numWordCalls, scall, tokens, senText, senpc, senWords,
                    senLinks, senErr, linkLog, storeBefore, dict, lookup >>

\* wp.Close returns once every worker has returned; Ingest then closes resultCh.
PoolClosed ==
    /\ mpc = "waitPool"
    /\ liveWorkers = 0
    /\ closedResultCh' = TRUE
    /\ resultChCloses' = resultChCloses + 1
    /\ mpc' = "waitConsumer"
    /\ UNCHANGED << db, faults, workers, poolKind, callerCancelled, cancelledAtCall,
                    ctxDone, lastProcessed, i, early, jobs, poolClosed, sending,
                    liveWorkers, resultCh, cpc, buffer, nextIdx, doneCh, buf, bwClosed,
                    commitCh, commitClosed, bwCtxDone, lastErr, batchErr, tickerExited,
                    cmpc, tx, totalLinks, consumerErr, retCount, retErr, dbAtStart,
                    submitted, committedRun, lastCommit, batchFailed, queue, poolStarted,
                    closeMu, spc, sret, afterClose, clpc, cl2pc, closeReturns, ran,
                    panicked, cap, closeRet, submitRet, bwCancelled, flushed, dropped,
                    onErrors, txLog, store, foreignKeys, lastLink, linkHist, linkFailures,
                    wcall, wordRets, numWordCalls, scall, tokens, senText, senpc, senWords,
                    senLinks, senErr, linkLog, storeBefore, dict, lookup >>

\* consumerErr := <-doneCh; a closed and empty doneCh yields nil.
WaitConsumer ==
    /\ mpc = "waitConsumer"
    /\ doneCh # "empty" \/ cpc = "exited"
    /\ consumerErr' = IF doneCh # "empty" THEN doneCh ELSE Nil
    /\ doneCh' = "empty"
    /\ mpc' = "bwClose"
    /\ UNCHANGED << db, faults, workers, poolKind, callerCancelled, cancelledAtCall,
                    ctxDone, lastProcessed, i, early, jobs, poolClosed, sending,
                    liveWorkers, resultCh, closedResultCh, resultChCloses, cpc, buffer,
                    nextIdx, buf, bwClosed, commitCh, commitClosed, bwCtxDone, lastErr,
                    batchErr, tickerExited, cmpc, tx, totalLinks, retCount, retErr,
                    dbAtStart, submitted, committedRun, lastCommit, batchFailed, queue,
                    poolStarted, closeMu, spc, sret, afterClose, clpc, cl2pc, closeReturns,
                    ran, panicked, cap, closeRet, submitRet, bwCancelled, flushed, dropped,
                    onErrors, txLog, store, foreignKeys, lastLink, linkHist, linkFailures,
                    wcall, wordRets, numWordCalls, scall, tokens, senText, senpc, senWords,
                    senLinks, senErr, linkLog, storeBefore, dict, lookup >>

\* BatchWriter.Close under bw.mu: set closed, stop the ticker, flush what is buffered.
BwClose ==
    /\ mpc = "bwClose"
    /\ ~bwClosed
    /\ bwClosed' = TRUE
    /\ \E o \in FlushBuffered : BwInstall(o)
    /\ mpc' = "bwShutdown"
    /\ UNCHANGED << db, faults, workers, poolKind, callerCancelled, cancelledAtCall,
                    ctxDone, lastProcessed, i, early, jobs, poolClosed, sending,
                    liveWorkers, resultCh, closedResultCh, resultChCloses, cpc, buffer,
                    nextIdx, doneCh, commitClosed, bwCtxDone, tickerExited, cmpc, tx,
                    totalLinks, consumerErr, retCount, retErr, dbAtStart, submitted,
                    committedRun, lastCommit, queue, poolStarted, closeMu, spc, sret,
                    afterClose, clpc, cl2pc, closeReturns, ran, panicked, cap, closeRet,
                    submitRet, bwCancelled, txLog, store, foreignKeys, lastLink, linkHist,
                    linkFailures, wcall, wordRets, numWordCalls, scall, tokens, senText,
                    senpc, senWords, senLinks, senErr, linkLog, storeBefore, dict, lookup >>

\* BatchWriter.Close: bw.cancel() and close(bw.commitCh).
BwShutdown ==
    /\ mpc = "bwShutdown"
    /\ bwCtxDone' = TRUE
    /\ commitClosed' = TRUE
    /\ mpc' = "bwWait"
    /\ UNCHANGED << db, faults, workers, poolKind, callerCancelled, cancelledAtCall,
                    ctxDone, lastProcessed, i, early, jobs, poolClosed, sending,
                    liveWorkers, resultCh, closedResultCh, resultChCloses, cpc, buffer,
                    nextIdx, doneCh, buf, bwClosed, commitCh, lastErr, batchErr,
                    tickerExited, cmpc, tx, totalLinks, consumerErr, retCount, retErr,
                    dbAtStart, submitted, committedRun, lastCommit, batchFailed, queue,
                    poolStarted, closeMu, spc, sret, afterClose, clpc, cl2pc, closeReturns,
                    ran, panicked, cap, closeRet, submitRet, bwCancelled, flushed, dropped,
                    onErrors, txLog, store, foreignKeys, lastLink, linkHist, linkFailures,
                    wcall, wordRets, numWordCalls, scall, tokens, senText, senpc, senWords,
                    senLinks, senErr, linkLog, storeBefore, dict, lookup >>

\* BatchWriter.Close returns lastErr once the committer and the ticker loop have
\* returned; Ingest then returns, and its deferred calls run (cancel() ends ctx, the
\* second wp.Close and bw.Close change nothing, the cleanup closes resultCh if the
\* flag is not set).  After a failed SubmitCtx the deferred calls are the ones
\* that brought the call here.
IngestReturn ==
    /\ mpc = "bwWait"
    /\ cmpc = "exited"
    /\ tickerExited
    /\ retErr' = IF early # Nil THEN early ELSE ReturnError(consumerErr, lastErr, batchErr)
    /\ retCount' = IF early # Nil THEN 0 ELSE totalLinks
    /\ ctxDone' = TRUE
    /\ resultChCloses' =
        resultChCloses + (IF early # Nil THEN 0 ELSE CleanupCloses(closedResultCh))
    /\ mpc' = "returned"
    /\ UNCHANGED << db, faults, workers, poolKind, callerCancelled, cancelledAtCall,
                    lastProcessed, i, early, jobs, poolClosed, sending, liveWorkers,
                    resultCh, closedResultCh, cpc, buffer, nextIdx, doneCh, buf, bwClosed,
                    commitCh, commitClosed, bwCtxDone, lastErr, batchErr, tickerExited,
                    cmpc, tx, totalLinks, consumerErr, dbAtStart, submitted, committedRun,
                    lastCommit, batchFailed, queue, poolStarted, closeMu, spc, sret,
                    afterClose, clpc, cl2pc, closeReturns, ran, panicked, cap, closeRet,
                    submitRet, bwCancelled, flushed, dropped, onErrors, txLog, store,
                    foreignKeys, lastLink, linkHist, linkFailures, wcall, wordRets,
                    numWordCalls, scall, tokens, senText, senpc, senWords, senLinks,
                    senErr, linkLog, storeBefore, dict, lookup >>

\* ------------------------------------------------------------------ worker pool
IdleWorkers == liveWorkers - Cardinality(sending)

\* A worker takes the next job and runs processSentence on it.
WorkerTake ==
    /\ IdleWorkers > 0
    /\ jobs # <<>>
    /\ sending' = sending \cup {Head(jobs)}
    /\ jobs' = Tail(jobs)
    /\ UNCHANGED << db, faults, workers, poolKind, callerCancelled, cancelledAtCall,
                    ctxDone, mpc, lastProcessed, i, early, poolClosed, liveWorkers,
                    resultCh, closedResultCh, resultChCloses, cpc, buffer, nextIdx, doneCh,
                    buf, bwClosed, commitCh, commitClosed, bwCtxDone, lastErr, batchErr,
                    tickerExited, cmpc, tx, totalLinks, consumerErr, retCount, retErr,
                    dbAtStart, submitted, committedRun, lastCommit, batchFailed, queue,
                    poolStarted, closeMu, spc, sret, afterClose, clpc, cl2pc, closeReturns,
                    ran, panicked, cap, closeRet, submitRet, bwCancelled, flushed, dropped,
                    onErrors, txLog, store, foreignKeys, lastLink, linkHist, linkFailures,
                    wcall, wordRets, numWordCalls, scall, tokens, senText, senpc, senWords,
                    senLinks, senErr, linkLog, storeBefore, dict, lookup >>

\* A worker returns: ctx is done, or the job queue is closed and drained.
WorkerExit ==
    /\ IdleWorkers > 0
    /\ ctxDone \/ (poolClosed /\ jobs = <<>>)
    /\ liveWorkers' = liveWorkers - 1
    /\ UNCHANGED << db, faults, workers, poolKind, callerCancelled, cancelledAtCall,
                    ctxDone, mpc, lastProcessed, i, early, jobs, poolClosed, sending,
                    resultCh, closedResultCh, resultChCloses, cpc, buffer, nextIdx, doneCh,
                    buf, bwClosed, commitCh, commitClosed, bwCtxDone, lastErr, batchErr,
                    tickerExited, cmpc, tx, totalLinks, consumerErr, retCount, retErr,
                    dbAtStart, submitted, committedRun, lastCommit, batchFailed, queue,
                    poolStarted, closeMu, spc, sret, afterClose, clpc, cl2pc, closeReturns,
                    ran, panicked, cap, closeRet, submitRet, bwCancelled, flushed, dropped,
                    onErrors, txLog, store, foreignKeys, lastLink, linkHist, linkFailures,
                    wcall, wordRets, numWordCalls, scall, tokens, senText, senpc, senWords,
                    senLinks, senErr, linkLog, storeBefore, dict, lookup >>

\* Mutation of WorkerSend: a job whose send on resultCh does not watch ctx.
WorkerSendUnguarded ==
    \E idx \in sending :
        /\ sending' = sending \ {idx}
        /\ Len(resultCh) < QueueCap
        /\ ~closedResultCh
        /\ resultCh' = Append(resultCh, idx)
        /\ UNCHANGED << db, faults, workers, poolKind, callerCancelled, cancelledAtCall,
                        ctxDone, mpc, lastProcessed, i, early, jobs, poolClosed,
                        liveWorkers, closedResultCh, resultChCloses, cpc, buffer, nextIdx,
                        doneCh, buf, bwClosed, commitCh, commitClosed, bwCtxDone, lastErr,
                        batchErr, tickerExited, cmpc, tx, totalLinks, consumerErr,
                        retCount, retErr, dbAtStart, submitted, committedRun, lastCommit,
                        batchFailed, queue, poolStarted, closeMu, spc, sret, afterClose,
                        clpc, cl2pc, closeReturns, ran, panicked, cap, closeRet, submitRet,
                        bwCancelled, flushed, dropped, onErrors, txLog, store, foreignKeys,
                        lastLink, linkHist, linkFailures, wcall, wordRets, numWordCalls,
                        scall, tokens, senText, senpc, senWords, senLinks, senErr, linkLog,
                        storeBefore, dict, lookup >>

\* The end of a job: send the result, or give it up because ctx is done.  (resultCh
\* is closed only after wp.Close has waited for the workers, so no send meets a
\* closed channel.)
WorkerSend ==
    \E idx \in sending :
        /\ sending' = sending \ {idx}
        /\ \/ /\ Len(resultCh) < QueueCap
              /\ ~closedResultCh
              /\ resultCh' = Append(resultCh, idx)
           \/ /\ ctxDone
              /\ UNCHANGED resultCh
        /\ UNCHANGED << db, faults, workers, poolKind, callerCancelled, cancelledAtCall,
                        ctxDone, mpc, lastProcessed, i, early, jobs, poolClosed,
                        liveWorkers, closedResultCh, resultChCloses, cpc, buffer, nextIdx,
                        doneCh, buf, bwClosed, commitCh, commitClosed, bwCtxDone, lastErr,
                        batchErr, tickerExited, cmpc, tx, totalLinks, consumerErr,
                        retCount, retErr, dbAtStart, submitted, committedRun, lastCommit,
                        batchFailed, queue, poolStarted, closeMu, spc, sret, afterClose,
                        clpc, cl2pc, closeReturns, ran, panicked, cap, closeRet, submitRet,
                        bwCancelled, flushed, dropped, onErrors, txLog, store, foreignKeys,
                        lastLink, linkHist, linkFailures, wcall, wordRets, numWordCalls,
                        scall, tokens, senText, senpc, senWords, senLinks, senErr, linkLog,
                        storeBefore, dict, lookup >>

\* ------------------------------------------------------------------ Ingest: consumer
\* The head of the consumer loop: stop with ctx.Err() once ctx is done.
ConsumerTop ==
    /\ cpc = "top"
    /\ IF ctxErr(ctxDone) # Nil
       THEN /\ doneCh' = ctxErr(ctxDone)
            /\ cpc' = "exited"
       ELSE /\ cpc' = "recv"
            /\ UNCHANGED doneCh
    /\ UNCHANGED << db, faults, workers, poolKind, callerCancelled, cancelledAtCall,
                    ctxDone, mpc, lastProcessed, i, early, jobs, poolClosed, sending,
                    liveWorkers, resultCh, closedResultCh, resultChCloses, buffer, nextIdx,
                    buf, bwClosed, commitCh, commitClosed, bwCtxDone, lastErr, batchErr,
                    tickerExited, cmpc, tx, totalLinks, consumerErr, retCount, retErr,
                    dbAtStart, submitted, committedRun, lastCommit, batchFailed, queue,
                    poolStarted, closeMu, spc, sret, afterClose, clpc, cl2pc, closeReturns,
                    ran, panicked, cap, closeRet, submitRet, bwCancelled, flushed, dropped,
                    onErrors, txLog, store, foreignKeys, lastLink, linkHist, linkFailures,
                    wcall, wordRets, numWordCalls, scall, tokens, senText, senpc, senWords,
                    senLinks, senErr, linkLog, storeBefore, dict, lookup >>

\* res := <-resultCh with a result: store it in the reorder buffer.
ConsumerRecv ==
    /\ cpc = "recv"
    /\ resultCh # <<>>
    /\ buffer' = buffer \cup {Head(resultCh)}
    /\ resultCh' = Tail(resultCh)
    /\ cpc' = "drain"
    /\ UNCHANGED << db, faults, workers, poolKind, callerCancelled, cancelledAtCall,
                    ctxDone, mpc, lastProcessed, i, early, jobs, poolClosed, sending,
                    liveWorkers, closedResultCh, resultChCloses, nextIdx, doneCh, buf,
                    bwClosed, commitCh, commitClosed, bwCtxDone, lastErr, batchErr,
                    tickerExited, cmpc, tx, totalLinks, consumerErr, retCount, retErr,
                    dbAtStart, submitted, committedRun, lastCommit, batchFailed, queue,
                    poolStarted, closeMu, spc, sret, afterClose, clpc, cl2pc, closeReturns,
                    ran, panicked, cap, closeRet, submitRet, bwCancelled, flushed, dropped,
                    onErrors, txLog, store, foreignKeys, lastLink, linkHist, linkFailures,
                    wcall, wordRets, numWordCalls, scall, tokens, senText, senpc, senWords,
                    senLinks, senErr, linkLog, storeBefore, dict, lookup >>

\* res, ok := <-resultCh with ok false: resultCh is closed and empty.
ConsumerRecvClosed ==
    /\ cpc = "recv"
    /\ resultCh = <<>>
    /\ closedResultCh
    /\ cpc' = "drainClosed"
    /\ UNCHANGED << db, faults, workers, poolKind, callerCancelled, cancelledAtCall,
                    ctxDone, mpc, lastProcessed, i, early, jobs, poolClosed, sending,
                    liveWorkers, resultCh, closedResultCh, resultChCloses, buffer, nextIdx,
                    doneCh, buf, bwClosed, commitCh, commitClosed, bwCtxDone, lastErr,
                    batchErr, tickerExited, cmpc, tx, totalLinks, consumerErr, retCount,
                    retErr, dbAtStart, submitted, committedRun, lastCommit, batchFailed,
                    queue, poolStarted, closeMu, spc, sret, afterClose, clpc, cl2pc,
                    closeReturns, ran, panicked, cap, closeRet, submitRet, bwCancelled,
                    flushed, dropped, onErrors, txLog, store, foreignKeys, lastLink,
                    linkHist, linkFailures, wcall, wordRets, numWordCalls, scall, tokens,
                    senText, senpc, senWords, senLinks, senErr, linkLog, storeBefore, dict,
                    lookup >>

\* One round of "process contiguous finished items": hand the callback of nextIdx
\* to the batch writer, or go back to the head of the loop when nextIdx is missing.
\* A Submit refused by a closed writer cancels ctx and ends the consumer with the error.
ConsumerDrain ==
    /\ cpc = "drain"
    /\ IF DrainItem(buffer, nextIdx) = {}
       THEN /\ cpc' = "top"
            /\ UNCHANGED << buffer, nextIdx, submitted, buf, commitCh, lastErr, batchErr,
                            batchFailed, onErrors, flushed, dropped, ctxDone, doneCh >>
       ELSE \E item \in DrainItem(buffer, nextIdx) :
            /\ buffer' = buffer \ {item}
            /\ IF bwClosed
               THEN /\ ctxDone' = TRUE
                    /\ doneCh' = ErrBatchWriterClosed
                    /\ cpc' = "exited"
                    /\ UNCHANGED << nextIdx, submitted, buf, commitCh, lastErr, batchErr,
                                    batchFailed, onErrors, flushed, dropped >>
               ELSE /\ \E o \in Submit(item) : BwInstall(o)
                    /\ submitted' = Append(submitted, item)
                    /\ nextIdx' = nextIdx + 1
                    /\ UNCHANGED << cpc, ctxDone, doneCh >>
    /\ UNCHANGED << db, faults, workers, poolKind, callerCancelled, cancelledAtCall, mpc,
                    lastProcessed, i, early, jobs, poolClosed, sending, liveWorkers,
                    resultCh, closedResultCh, resultChCloses, bwClosed, commitClosed,
                    bwCtxDone, tickerExited, cmpc, tx, totalLinks, consumerErr, retCount,
                    retErr, dbAtStart, committedRun, lastCommit, queue, poolStarted,
                    closeMu, spc, sret, afterClose, clpc, cl2pc, closeReturns, ran,
                    panicked, cap, closeRet, submitRet, bwCancelled, txLog, store,
                    foreignKeys, lastLink, linkHist, linkFailures, wcall, wordRets,
                    numWordCalls, scall, tokens, senText, senpc, senWords, senLinks,
                    senErr, linkLog, storeBefore, dict, lookup >>

\* The same round after resultCh was closed; when nextIdx is missing the consumer
\* sends nil on doneCh and returns.  A refused Submit cancels ctx and returns
\* without sending on doneCh.
ConsumerDrainClosed ==
    /\ cpc = "drainClosed"
    /\ IF DrainItem(buffer, nextIdx) = {}
       THEN /\ doneCh' = Nil
            /\ cpc' = "exited"
            /\ UNCHANGED << buffer, nextIdx, submitted, buf, commitCh, lastErr, batchErr,
                            batchFailed, onErrors, flushed, dropped, ctxDone >>
       ELSE \E item \in DrainItem(buffer, nextIdx) :
            /\ buffer' = buffer \ {item}
            /\ IF bwClosed
               THEN /\ ctxDone' = TRUE
                    /\ cpc' = "exited"
                    /\ UNCHANGED << nextIdx, submitted, buf, commitCh, lastErr, batchErr,
                                    batchFailed, onErrors, flushed, dropped, doneCh >>
               ELSE /\ \E o \in Submit(item) : BwInstall(o)
                    /\ submitted' = Append(submitted, item)
                    /\ nextIdx' = nextIdx + 1
                    /\ UNCHANGED << cpc, ctxDone, doneCh >>
    /\ UNCHANGED << db, faults, workers, poolKind, callerCancelled, cancelledAtCall, mpc,
                    lastProcessed, i, early, jobs, poolClosed, sending, liveWorkers,
                    resultCh, closedResultCh, resultChCloses, bwClosed, commitClosed,
                    bwCtxDone, tickerExited, cmpc, tx, totalLinks, consumerErr, retCount,
                    retErr, dbAtStart, committedRun, lastCommit, queue, poolStarted,
                    closeMu, spc, sret, afterClose, clpc, cl2pc, closeReturns, ran,
                    panicked, cap, closeRet, submitRet, bwCancelled, txLog, store,
                    foreignKeys, lastLink, linkHist, linkFailures, wcall, wordRets,
                    numWordCalls, scall, tokens, senText, senpc, senWords, senLinks,
                    senErr, linkLog, storeBefore, dict, lookup >>

\* ------------------------------------------------------------------ batch writer: ticker
\* Mutation of TickerFlush: a ticker loop that flushes a full buffer only.
TickerFlushWhenFull ==
    /\ ~tickerExited
    /\ Len(buf) >= cap
    /\ \E o \in FlushBuffered : BwInstall(o)
    /\ UNCHANGED << db, faults, workers, poolKind, callerCancelled, cancelledAtCall,
                    ctxDone, mpc, lastProcessed, i, early, jobs, poolClosed, sending,
                    liveWorkers, resultCh, closedResultCh, resultChCloses, cpc, buffer,
                    nextIdx, doneCh, bwClosed, commitClosed, bwCtxDone, tickerExited, cmpc,
                    tx, totalLinks, consumerErr, retCount, retErr, dbAtStart, submitted,
                    committedRun, lastCommit, queue, poolStarted, closeMu, spc, sret,
                    afterClose, clpc, cl2pc, closeReturns, ran, panicked, cap, closeRet,
                    submitRet, bwCancelled, txLog, store, foreignKeys, lastLink, linkHist,
                    linkFailures, wcall, wordRets, numWordCalls, scall, tokens, senText,
                    senpc, senWords, senLinks, senErr, linkLog, storeBefore, dict, lookup >>

\* A tick of the flush ticker with a non-empty buffer.
TickerFlush ==
    /\ ~tickerExited
    /\ buf # <<>>
    /\ \E o \in FlushBuffered : BwInstall(o)
    /\ UNCHANGED << db, faults, workers, poolKind, callerCancelled, cancelledAtCall,
                    ctxDone, mpc, lastProcessed, i, early, jobs, poolClosed, sending,
                    liveWorkers, resultCh, closedResultCh, resultChCloses, cpc, buffer,
                    nextIdx, doneCh, bwClosed, commitClosed, bwCtxDone, tickerExited, cmpc,
                    tx, totalLinks, consumerErr, retCount, retErr, dbAtStart, submitted,
                    committedRun, lastCommit, queue, poolStarted, closeMu, spc, sret,
                    afterClose, clpc, cl2pc, closeReturns, ran, panicked, cap, closeRet,
                    submitRet, bwCancelled, txLog, store, foreignKeys, lastLink, linkHist,
                    linkFailures, wcall, wordRets, numWordCalls, scall, tokens, senText,
                    senpc, senWords, senLinks, senErr, linkLog, storeBefore, dict, lookup >>

\* The ticker loop returns once bw.ctx is done.
TickerExit ==
    /\ ~tickerExited
    /\ bwCtxDone
    /\ tickerExited' = TRUE
    /\ UNCHANGED << db, faults, workers, poolKind, callerCancelled, cancelledAtCall,
                    ctxDone, mpc, lastProcessed, i, early, jobs, poolClosed, sending,
                    liveWorkers, resultCh, closedResultCh, resultChCloses, cpc, buffer,
                    nextIdx, doneCh, buf, bwClosed, commitCh, commitClosed, bwCtxDone,
                    lastErr, batchErr, cmpc, tx, totalLinks, consumerErr, retCount, retErr,
                    dbAtStart, submitted, committedRun, lastCommit, batchFailed, queue,
                    poolStarted, closeMu, spc, sret, afterClose, clpc, cl2pc, closeReturns,
                    ran, panicked, cap, closeRet, submitRet, bwCancelled, flushed, dropped,
                    onErrors, txLog, store, foreignKeys, lastLink, linkHist, linkFailures,
                    wcall, wordRets, numWordCalls, scall, tokens, senText, senpc, senWords,
                    senLinks, senErr, linkLog, storeBefore, dict, lookup >>

\* ------------------------------------------------------------------ batch writer: committer
\* The committer takes the next batch and executeBatch begins its transaction;
\* a failed BeginTx is the batch's error.
\* Mutation of committerIdle: the committer would take the next batch while the
\* transaction of the previous one is still open.
committerIdleAlways(pc) == pc \in {"idle", "intx"}

\* committer is one goroutine ranging over commitCh and calling executeBatch
\* synchronously: it receives the next batch only after executeBatch returned.
committerIdle(pc) == pc = "idle"

\* Mutation of CommitterBegin: a transaction begun on bw.ctx, which fails once
\* that context is done.
CommitterBeginOnWriterCtx ==
    /\ committerIdle(cmpc)
    /\ commitCh # <<>>
    /\ commitCh' = Tail(commitCh)
    /\ \E ok \in BOOLEAN :
        /\ ok \/ faults < MaxFaults \/ bwCtxDone
        /\ ~(ok /\ bwCtxDone)
        /\ IF ok
           THEN /\ tx' = [db |-> db, ops |-> <<>>, batch |-> Head(commitCh)]
                /\ cmpc' = "intx"
                /\ txLog' = Append(txLog, [batch |-> Head(commitCh), run |-> <<>>,
                                           res |-> "open"])
                /\ UNCHANGED << faults, lastErr, batchErr, batchFailed, onErrors >>
           ELSE /\ faults' = IF bwCtxDone THEN faults ELSE faults + 1
                /\ RecordBatchError(ErrBatch)
                /\ txLog' = Append(txLog, [batch |-> Head(commitCh), run |-> <<>>,
                                           res |-> "nobegin"])
                /\ UNCHANGED << tx, cmpc >>
    /\ UNCHANGED << db, workers, poolKind, callerCancelled, cancelledAtCall, ctxDone, mpc,
                    lastProcessed, i, early, jobs, poolClosed, sending, liveWorkers,
                    resultCh, closedResultCh, resultChCloses, cpc, buffer, nextIdx, doneCh,
                    buf, bwClosed, commitClosed, bwCtxDone, tickerExited, totalLinks,
                    consumerErr, retCount, retErr, dbAtStart, submitted, committedRun,
                    lastCommit, queue, poolStarted, closeMu, spc, sret, afterClose, clpc,
                    cl2pc, closeReturns, ran, panicked, cap, closeRet, submitRet,
                    bwCancelled, flushed, dropped, store, foreignKeys, lastLink, linkHist,
                    linkFailures, wcall, wordRets, numWordCalls, scall, tokens, senText,
                    senpc, senWords, senLinks, senErr, linkLog, storeBefore, dict, lookup >>

CommitterBegin ==
    /\ committerIdle(cmpc)
    /\ commitCh # <<>>
    /\ commitCh' = Tail(commitCh)
    /\ \E ok \in BOOLEAN :
        /\ ok \/ faults < MaxFaults
        /\ IF ok
           THEN /\ tx' = [db |-> db, ops |-> <<>>, batch |-> Head(commitCh)]
                /\ cmpc' = "intx"
                /\ txLog' = Append(txLog, [batch |-> Head(commitCh), run |-> <<>>,
                                           res |-> "open"])
                /\ UNCHANGED << faults, lastErr, batchErr, batchFailed, onErrors >>
           ELSE /\ faults' = faults + 1
                /\ RecordBatchError(ErrBatch)
                /\ txLog' = Append(txLog, [batch |-> Head(commitCh), run |-> <<>>,
                                           res |-> "nobegin"])
                /\ UNCHANGED << tx, cmpc >>
    /\ UNCHANGED << db, workers, poolKind, callerCancelled, cancelledAtCall, ctxDone, mpc,
                    lastProcessed, i, early, jobs, poolClosed, sending, liveWorkers,
                    resultCh, closedResultCh, resultChCloses, cpc, buffer, nextIdx, doneCh,
                    buf, bwClosed, commitClosed, bwCtxDone, tickerExited, totalLinks,
                    consumerErr, retCount, retErr, dbAtStart, submitted, committedRun,
                    lastCommit, queue, poolStarted, closeMu, spc, sret, afterClose, clpc,
                    cl2pc, closeReturns, ran, panicked, cap, closeRet, submitRet,
                    bwCancelled, flushed, dropped, store, foreignKeys, lastLink, linkHist,
                    linkFailures, wcall, wordRets, numWordCalls, scall, tokens, senText,
                    senpc, senWords, senLinks, senErr, linkLog, storeBefore, dict, lookup >>

\* executeBatch runs the next callback of the batch.  The callback fails when one
\* of its database operations fails: failAt = k <= number of words is a failure
\* while persisting or linking word k, failAt = number of words + 1 a failure of
\* UpdateSourceProgress, failAt = 0 no failure.  totalLinks has by then grown by
\* the counts of the words linked so far; a failure rolls the transaction back.
CommitterCallback ==
    /\ cmpc = "intx"
    /\ tx.batch # <<>>
    /\ LET idx == Head(tx.batch)
           words == processSentence(idx)
       IN  \E failAt \in 0..(Len(words) + 1) :
            /\ failAt = 0 \/ faults < MaxFaults
            /\ IF failAt = 0
               THEN /\ tx' = WriteCallback(tx, idx)
                    /\ totalLinks' = totalLinks + SumCounts(words, Len(words))
                    /\ txLog' = [txLog EXCEPT ![Len(txLog)].run = Append(@, idx)]
                    /\ UNCHANGED << cmpc, faults, lastErr, batchErr, batchFailed,
                                    onErrors >>
               ELSE /\ totalLinks' = totalLinks + SumCounts(words, failAt - 1)
                    /\ tx' = NoTx
                    /\ cmpc' = "idle"
                    /\ faults' = faults + 1
                    /\ RecordBatchError(ErrBatch)
                    /\ txLog' = [txLog EXCEPT ![Len(txLog)].run = Append(@, idx),
                                              ![Len(txLog)].res = "failed"]
    /\ UNCHANGED << db, workers, poolKind, callerCancelled, cancelledAtCall, ctxDone, mpc,
                    lastProcessed, i, early, jobs, poolClosed, sending, liveWorkers,
                    resultCh, closedResultCh, resultChCloses, cpc, buffer, nextIdx, doneCh,
                    buf, bwClosed, commitCh, commitClosed, bwCtxDone, tickerExited,
                    consumerErr, retCount, retErr, dbAtStart, submitted, committedRun,
                    lastCommit, queue, poolStarted, closeMu, spc, sret, afterClose, clpc,
                    cl2pc, closeReturns, ran, panicked, cap, closeRet, submitRet,
                    bwCancelled, flushed, dropped, store, foreignKeys, lastLink, linkHist,
                    linkFailures, wcall, wordRets, numWordCalls, scall, tokens, senText,
                    senpc, senWords, senLinks, senErr, linkLog, storeBefore, dict, lookup >>

\* executeBatch commits after the last callback; a failed Commit rolls back.
CommitterCommit ==
    /\ cmpc = "intx"
    /\ tx.batch = <<>>
    /\ tx' = NoTx
    /\ cmpc' = "idle"
    /\ \E ok \in BOOLEAN :
        /\ ok \/ faults < MaxFaults
        /\ IF ok
           THEN /\ db' = tx.db
                /\ lastCommit' = [ops |-> tx.ops, last |-> tx.db.last]
                /\ committedRun' = committedRun \cup
                       {tx.ops[k].idx : k \in {n \in 1..Len(tx.ops) : tx.ops[n].op = "link"}}
                       \cup {tx.ops[k].idx : k \in {n \in 1..Len(tx.ops) : tx.ops[n].op = "progress"}}
                /\ txLog' = [txLog EXCEPT ![Len(txLog)].res = "committed"]
                /\ UNCHANGED << faults, lastErr, batchErr, batchFailed, onErrors >>
           ELSE /\ faults' = faults + 1
                /\ RecordBatchError(ErrBatch)
                /\ txLog' = [txLog EXCEPT ![Len(txLog)].res = "nocommit"]
                /\ UNCHANGED << db, lastCommit, committedRun >>
    /\ UNCHANGED << workers, poolKind, callerCancelled, cancelledAtCall, ctxDone, mpc,
                    lastProcessed, i, early, jobs, poolClosed, sending, liveWorkers,
                    resultCh, closedResultCh, resultChCloses, cpc, buffer, nextIdx, doneCh,
                    buf, bwClosed, commitCh, commitClosed, bwCtxDone, tickerExited,
                    totalLinks, consumerErr, retCount, retErr, dbAtStart, submitted, queue,
                    poolStarted, closeMu, spc, sret, afterClose, clpc, cl2pc, closeReturns,
                    ran, panicked, cap, closeRet, submitRet, bwCancelled, flushed, dropped,
                    store, foreignKeys, lastLink, linkHist, linkFailures, wcall, wordRets,
                    numWordCalls, scall, tokens, senText, senpc, senWords, senLinks,
                    senErr, linkLog, storeBefore, dict, lookup >>

\* The committer returns once commitCh is closed and drained.
CommitterExit ==
    /\ cmpc = "idle"
    /\ commitCh = <<>>
    /\ commitClosed
    /\ cmpc' = "exited"
    /\ UNCHANGED << db, faults, workers, poolKind, callerCancelled, cancelledAtCall,
                    ctxDone, mpc, lastProcessed, i, early, jobs, poolClosed, sending,
                    liveWorkers, resultCh, closedResultCh, resultChCloses, cpc, buffer,
                    nextIdx, doneCh, buf, bwClosed, commitCh, commitClosed, bwCtxDone,
                    lastErr, batchErr, tickerExited, tx, totalLinks, consumerErr, retCount,
                    retErr, dbAtStart, submitted, committedRun, lastCommit, batchFailed,
                    queue, poolStarted, closeMu, spc, sret, afterClose, clpc, cl2pc,
                    closeReturns, ran, panicked, cap, closeRet, submitRet, bwCancelled,
                    flushed, dropped, onErrors, txLog, store, foreignKeys, lastLink,
                    linkHist, linkFailures, wcall, wordRets, numWordCalls, scall, tokens,
                    senText, senpc, senWords, senLinks, senErr, linkLog, storeBefore, dict,
                    lookup >>

\* ------------------------------------------------------------------ environment
\* The caller cancels the context it passed to Ingest.
CallerCancel ==
    /\ mpc \notin {"start", "returned"}
    /\ ~callerCancelled
    /\ callerCancelled' = TRUE
    /\ ctxDone' = TRUE
    /\ UNCHANGED << db, faults, workers, poolKind, cancelledAtCall, mpc, lastProcessed, i,
                    early, jobs, poolClosed, sending, liveWorkers, resultCh,
                    closedResultCh, resultChCloses, cpc, buffer, nextIdx, doneCh, buf,
                    bwClosed, commitCh, commitClosed, bwCtxDone, lastErr, batchErr,
                    tickerExited, cmpc, tx, totalLinks, consumerErr, retCount, retErr,
                    dbAtStart, submitted, committedRun, lastCommit, batchFailed, queue,
                    poolStarted, closeMu, spc, sret, afterClose, clpc, cl2pc, closeReturns,
                    ran, panicked, cap, closeRet, submitRet, bwCancelled, flushed, dropped,
                    onErrors, txLog, store, foreignKeys, lastLink, linkHist, linkFailures,
                    wcall, wordRets, numWordCalls, scall, tokens, senText, senpc, senWords,
                    senLinks, senErr, linkLog, storeBefore, dict, lookup >>

\* The next Ingest call for the same source and sentences, after the previous call
\* returned or the process crashed: only the committed store survives.
NextRun ==
    /\ mpc # "start"
    /\ callerCancelled' \in BOOLEAN
    /\ dbAtStart' = db
    /\ FreshCall
    /\ UNCHANGED << db, faults, workers, poolKind, queue, cap, poolStarted, closeMu, spc,
                    sret, afterClose, clpc, cl2pc, closeReturns, ran, panicked,
                    store,
                    foreignKeys, lastLink, linkHist, linkFailures, wcall, wordRets,
                    numWordCalls, scall, tokens, senText, senpc, senWords, senLinks,
                    senErr, linkLog, storeBefore, dict, lookup >>

Next ==
    \/ IngestStart
    \/ ProducerCheck
    \/ ProducerSubmit
    \/ ProducerSubmitFails
    \/ PoolClose
    \/ PoolClosed
    \/ WaitConsumer
    \/ BwClose
    \/ BwShutdown
    \/ IngestReturn
    \/ WorkerTake
    \/ WorkerExit
    \/ WorkerSend
    \/ ConsumerTop
    \/ ConsumerRecv
    \/ ConsumerRecvClosed
    \/ ConsumerDrain
    \/ ConsumerDrainClosed
    \/ TickerFlush
    \/ TickerExit
    \/ CommitterBegin
    \/ CommitterCallback
    \/ CommitterCommit
    \/ CommitterExit
    \/ CallerCancel
    \/ NextRun

Spec == Init /\ [][Next]_vars

\* One call that runs to its end: the steps of Next but for the next call.
NextCall ==
    \/ IngestStart
    \/ ProducerCheck
    \/ ProducerSubmit
    \/ ProducerSubmitFails
    \/ PoolClose
    \/ PoolClosed
    \/ WaitConsumer
    \/ BwClose
    \/ BwShutdown
    \/ IngestReturn
    \/ WorkerTake
    \/ WorkerExit
    \/ WorkerSend
    \/ ConsumerTop
    \/ ConsumerRecv
    \/ ConsumerRecvClosed
    \/ ConsumerDrain
    \/ ConsumerDrainClosed
    \/ TickerFlush
    \/ TickerExit
    \/ CommitterBegin
    \/ CommitterCallback
    \/ CommitterCommit
    \/ CommitterExit
    \/ CallerCancel

\* The steps of the goroutine that called Ingest, of the consumer, of an idle
\* worker, of the ticker loop and of the committer.
IngestStep ==
    \/ IngestStart
    \/ ProducerCheck
    \/ ProducerSubmit
    \/ ProducerSubmitFails
    \/ PoolClose
    \/ PoolClosed
    \/ WaitConsumer
    \/ BwClose
    \/ BwShutdown
    \/ IngestReturn

ConsumerStep ==
    \/ ConsumerTop
    \/ ConsumerRecv
    \/ ConsumerRecvClosed
    \/ ConsumerDrain
    \/ ConsumerDrainClosed

WorkerStep == WorkerTake \/ WorkerExit

TickerStep == TickerFlush \/ TickerExit

CommitterStep ==
    \/ CommitterBegin
    \/ CommitterCallback
    \/ CommitterCommit
    \/ CommitterExit

\* The scheduler runs every goroutine that can take a step, the ticker keeps
\* ticking and every database operation returns.  Nothing obliges the caller to
\* cancel.
FairSpec ==
    /\ Init
    /\ [][NextCall]_vars
    /\ WF_vars(IngestStep)
    /\ WF_vars(ConsumerStep)
    /\ WF_vars(WorkerStep)
    /\ WF_vars(WorkerSend)
    /\ WF_vars(TickerStep)
    /\ WF_vars(CommitterStep)

\* ------------------------------------------------------------------ worker pool on its own
\* The pool used directly, as its tests do: goroutines call Submit (submitter s
\* submits the job s, which counts its runs), one goroutine calls Close, the test
\* calls Start and cancels the context it passed to Start.  The workers are those
\* of WorkerTake and WorkerExit; sending holds the jobs a worker is running.

\* A Submit that would not look at p.closed.
SubmitRefusedNever(closed) == FALSE

\* if p.closed { return ErrPoolClosed }
SubmitRefused(closed) == closed

\* A Close that would not wait for the workers.
CloseNoWait(live) == TRUE

\* p.wg.Wait() returns once every started worker has returned.
CloseMayReturn(live) == live = 0

\* p.Start(ctx): the worker goroutines start.
PoolStart ==
    /\ mpc = "pool"
    /\ ~poolStarted
    /\ clpc = "idle"
    /\ closeReturns = 0
    /\ poolStarted' = TRUE
    /\ liveWorkers' = workers
    /\ UNCHANGED << db, faults, workers, poolKind, callerCancelled, cancelledAtCall,
                    ctxDone, mpc, lastProcessed, i, early, jobs, poolClosed, sending,
                    resultCh, closedResultCh, resultChCloses, cpc, buffer, nextIdx, doneCh,
                    buf, bwClosed, commitCh, commitClosed, bwCtxDone, lastErr, batchErr,
                    tickerExited, cmpc, tx, totalLinks, consumerErr, retCount, retErr,
                    dbAtStart, submitted, committedRun, lastCommit, batchFailed, queue,
                    closeMu, spc, sret, afterClose, clpc, cl2pc, closeReturns, ran,
                    panicked, cap, closeRet, submitRet, bwCancelled, flushed, dropped,
                    onErrors, txLog, store, foreignKeys, lastLink, linkHist, linkFailures,
                    wcall, wordRets, numWordCalls, scall, tokens, senText, senpc, senWords,
                    senLinks, senErr, linkLog, storeBefore, dict, lookup >>

\* The context passed to Start is cancelled.
PoolCancel ==
    /\ mpc = "pool"
    /\ ~ctxDone
    /\ ctxDone' = TRUE
    /\ UNCHANGED << db, faults, workers, poolKind, callerCancelled, cancelledAtCall, mpc,
                    lastProcessed, i, early, jobs, poolClosed, sending, liveWorkers,
                    resultCh, closedResultCh, resultChCloses, cpc, buffer, nextIdx, doneCh,
                    buf, bwClosed, commitCh, commitClosed, bwCtxDone, lastErr, batchErr,
                    tickerExited, cmpc, tx, totalLinks, consumerErr, retCount, retErr,
                    dbAtStart, submitted, committedRun, lastCommit, batchFailed, queue,
                    poolStarted, closeMu, spc, sret, afterClose, clpc, cl2pc, closeReturns,
                    ran, panicked, cap, closeRet, submitRet, bwCancelled, flushed, dropped,
                    onErrors, txLog, store, foreignKeys, lastLink, linkHist, linkFailures,
                    wcall, wordRets, numWordCalls, scall, tokens, senText, senpc, senWords,
                    senLinks, senErr, linkLog, storeBefore, dict, lookup >>

\* A goroutine calls p.Submit(job) and waits for p.closeMu.
SubmitCall(s) ==
    /\ mpc = "pool"
    /\ spc[s] = "idle"
    /\ spc' = [spc EXCEPT ![s] = "lock"]
    /\ afterClose' = [afterClose EXCEPT ![s] = closeReturns > 0]
    /\ UNCHANGED << db, faults, workers, poolKind, callerCancelled, cancelledAtCall,
                    ctxDone, mpc, lastProcessed, i, early, jobs, poolClosed, sending,
                    liveWorkers, resultCh, closedResultCh, resultChCloses, cpc, buffer,
                    nextIdx, doneCh, buf, bwClosed, commitCh, commitClosed, bwCtxDone,
                    lastErr, batchErr, tickerExited, cmpc, tx, totalLinks, consumerErr,
                    retCount, retErr, dbAtStart, submitted, committedRun, lastCommit,
                    batchFailed, queue, poolStarted, closeMu, sret, clpc, cl2pc,
                    closeReturns, ran, panicked, cap, closeRet, submitRet, bwCancelled,
                    flushed, dropped, onErrors, txLog, store, foreignKeys, lastLink,
                    linkHist, linkFailures, wcall, wordRets, numWordCalls, scall, tokens,
                    senText, senpc, senWords, senLinks, senErr, linkLog, storeBefore, dict,
                    lookup >>

\* Submit holds p.closeMu: a closed pool refuses the job (and the deferred Unlock
\* runs), an open one goes on to the send with the mutex held.
SubmitLock(s) ==
    /\ spc[s] = "lock"
    /\ closeMu = 0
    /\ IF SubmitRefused(poolClosed)
       THEN /\ sret' = [sret EXCEPT ![s] = ErrPoolClosed]
            /\ spc' = [spc EXCEPT ![s] = "done"]
            /\ UNCHANGED closeMu
       ELSE /\ closeMu' = s
            /\ spc' = [spc EXCEPT ![s] = "send"]
            /\ UNCHANGED sret
    /\ UNCHANGED << db, faults, workers, poolKind, callerCancelled, cancelledAtCall,
                    ctxDone, mpc, lastProcessed, i, early, jobs, poolClosed, sending,
                    liveWorkers, resultCh, closedResultCh, resultChCloses, cpc, buffer,
                    nextIdx, doneCh, buf, bwClosed, commitCh, commitClosed, bwCtxDone,
                    lastErr, batchErr, tickerExited, cmpc, tx, totalLinks, consumerErr,
                    retCount, retErr, dbAtStart, submitted, committedRun, lastCommit,
                    batchFailed, queue, poolStarted, afterClose, clpc, cl2pc, closeReturns,
                    ran, panicked, cap, closeRet, submitRet, bwCancelled, flushed, dropped,
                    onErrors, txLog, store, foreignKeys, lastLink, linkHist, linkFailures,
                    wcall, wordRets, numWordCalls, scall, tokens, senText, senpc, senWords,
                    senLinks, senErr, linkLog, storeBefore, dict, lookup >>

\* p.jobs <- job with p.closeMu held: the send waits for room in the queue, and a
\* send on a closed channel panics.  Submit then returns nil and unlocks.
SubmitSend(s) ==
    /\ spc[s] = "send"
    /\ IF poolClosed
       THEN /\ panicked' = TRUE
            /\ UNCHANGED << jobs, sret >>
       ELSE /\ Len(jobs) < queue
            /\ jobs' = Append(jobs, s)
            /\ sret' = [sret EXCEPT ![s] = Nil]
            /\ UNCHANGED panicked
    /\ closeMu' = 0
    /\ spc' = [spc EXCEPT ![s] = "done"]
    /\ UNCHANGED << db, faults, workers, poolKind, callerCancelled, cancelledAtCall,
                    ctxDone, mpc, lastProcessed, i, early, poolClosed, sending,
                    liveWorkers, resultCh, closedResultCh, resultChCloses, cpc, buffer,
                    nextIdx, doneCh, buf, bwClosed, commitCh, commitClosed, bwCtxDone,
                    lastErr, batchErr, tickerExited, cmpc, tx, totalLinks, consumerErr,
                    retCount, retErr, dbAtStart, submitted, committedRun, lastCommit,
                    batchFailed, queue, poolStarted, afterClose, clpc, cl2pc, closeReturns,
                    ran, cap, closeRet, submitRet, bwCancelled, flushed, dropped, onErrors,
                    txLog, store, foreignKeys, lastLink, linkHist, linkFailures, wcall,
                    wordRets, numWordCalls, scall, tokens, senText, senpc, senWords,
                    senLinks, senErr, linkLog, storeBefore, dict, lookup >>

\* The job a worker took returns: it has run once more.
JobDone ==
    /\ mpc = "pool"
    /\ \E j \in sending :
        /\ sending' = sending \ {j}
        /\ ran' = [ran EXCEPT ![j] = @ + 1]
    /\ UNCHANGED << db, faults, workers, poolKind, callerCancelled, cancelledAtCall,
                    ctxDone, mpc, lastProcessed, i, early, jobs, poolClosed, liveWorkers,
                    resultCh, closedResultCh, resultChCloses, cpc, buffer, nextIdx, doneCh,
                    buf, bwClosed, commitCh, commitClosed, bwCtxDone, lastErr, batchErr,
                    tickerExited, cmpc, tx, totalLinks, consumerErr, retCount, retErr,
                    dbAtStart, submitted, committedRun, lastCommit, batchFailed, queue,
                    poolStarted, closeMu, spc, sret, afterClose, clpc, cl2pc, closeReturns,
                    panicked, cap, closeRet, submitRet, bwCancelled, flushed, dropped,
                    onErrors, txLog, store, foreignKeys, lastLink, linkHist, linkFailures,
                    wcall, wordRets, numWordCalls, scall, tokens, senText, senpc, senWords,
                    senLinks, senErr, linkLog, storeBefore, dict, lookup >>

\* A goroutine calls p.Close() and waits for p.closeMu.
CloseCall ==
    /\ mpc = "pool"
    /\ clpc = "idle"
    /\ closeReturns < MaxCloses
    /\ clpc' = "lock"
    /\ UNCHANGED << db, faults, workers, poolKind, callerCancelled, cancelledAtCall,
                    ctxDone, mpc, lastProcessed, i, early, jobs, poolClosed, sending,
                    liveWorkers, resultCh, closedResultCh, resultChCloses, cpc, buffer,
                    nextIdx, doneCh, buf, bwClosed, commitCh, commitClosed, bwCtxDone,
                    lastErr, batchErr, tickerExited, cmpc, tx, totalLinks, consumerErr,
                    retCount, retErr, dbAtStart, submitted, committedRun, lastCommit,
                    batchFailed, queue, poolStarted, closeMu, spc, sret, afterClose, cl2pc,
                    closeReturns, ran, panicked, cap, closeRet, submitRet, bwCancelled,
                    flushed, dropped, onErrors, txLog, store, foreignKeys, lastLink,
                    linkHist, linkFailures, wcall, wordRets, numWordCalls, scall, tokens,
                    senText, senpc, senWords, senLinks, senErr, linkLog, storeBefore, dict,
                    lookup >>

\* Mutation of CloseLock: a Close that does not look at p.closed; close(p.jobs) on
\* the closed job queue panics.
CloseLockUnchecked ==
    /\ clpc = "lock"
    /\ closeMu = 0
    /\ poolClosed' = TRUE
    /\ panicked' = (panicked \/ poolClosed)
    /\ clpc' = "wait"
    /\ UNCHANGED << db, faults, workers, poolKind, callerCancelled, cancelledAtCall,
                    ctxDone, mpc, lastProcessed, i, early, jobs, sending, liveWorkers,
                    resultCh, closedResultCh, resultChCloses, cpc, buffer, nextIdx, doneCh,
                    buf, bwClosed, commitCh, commitClosed, bwCtxDone, lastErr, batchErr,
                    tickerExited, cmpc, tx, totalLinks, consumerErr, retCount, retErr,
                    dbAtStart, submitted, committedRun, lastCommit, batchFailed, queue,
                    poolStarted, closeMu, spc, sret, afterClose, cl2pc, closeReturns, ran,
                    cap, closeRet, submitRet, bwCancelled, flushed, dropped, onErrors,
                    txLog, store, foreignKeys, lastLink, linkHist, linkFailures, wcall,
                    wordRets, numWordCalls, scall, tokens, senText, senpc, senWords,
                    senLinks, senErr, linkLog, storeBefore, dict, lookup >>

\* Close holds p.closeMu: on a closed pool it returns at once, else it sets closed,
\* closes the job queue, unlocks and goes on to wait for the workers.
CloseLock ==
    /\ clpc = "lock"
    /\ closeMu = 0
    /\ IF poolClosed
       THEN /\ clpc' = "idle"
            /\ closeReturns' = closeReturns + 1
            /\ UNCHANGED poolClosed
       ELSE /\ poolClosed' = TRUE
            /\ clpc' = "wait"
            /\ UNCHANGED closeReturns
    /\ UNCHANGED << db, faults, workers, poolKind, callerCancelled, cancelledAtCall,
                    ctxDone, mpc, lastProcessed, i, early, jobs, sending, liveWorkers,
                    resultCh, closedResultCh, resultChCloses, cpc, buffer, nextIdx, doneCh,
                    buf, bwClosed, commitCh, commitClosed, bwCtxDone, lastErr, batchErr,
                    tickerExited, cmpc, tx, totalLinks, consumerErr, retCount, retErr,
                    dbAtStart, submitted, committedRun, lastCommit, batchFailed, queue,
                    poolStarted, closeMu, spc, sret, afterClose, cl2pc, ran, panicked, cap,
                    closeRet, submitRet, bwCancelled, flushed, dropped, onErrors, txLog,
                    store, foreignKeys, lastLink, linkHist, linkFailures, wcall, wordRets,
                    numWordCalls, scall, tokens, senText, senpc, senWords, senLinks,
                    senErr, linkLog, storeBefore, dict, lookup >>

\* p.wg.Wait() is over and Close returns.
CloseWait ==
    /\ clpc = "wait"
    /\ CloseMayReturn(liveWorkers)
    /\ clpc' = "idle"
    /\ closeReturns' = closeReturns + 1
    /\ UNCHANGED << db, faults, workers, poolKind, callerCancelled, cancelledAtCall,
                    ctxDone, mpc, lastProcessed, i, early, jobs, poolClosed, sending,
                    liveWorkers, resultCh, closedResultCh, resultChCloses, cpc, buffer,
                    nextIdx, doneCh, buf, bwClosed, commitCh, commitClosed, bwCtxDone,
                    lastErr, batchErr, tickerExited, cmpc, tx, totalLinks, consumerErr,
                    retCount, retErr, dbAtStart, submitted, committedRun, lastCommit,
                    batchFailed, queue, poolStarted, closeMu, spc, sret, afterClose, cl2pc,
                    ran, panicked, cap, closeRet, submitRet, bwCancelled, flushed, dropped,
                    onErrors, txLog, store, foreignKeys, lastLink, linkHist, linkFailures,
                    wcall, wordRets, numWordCalls, scall, tokens, senText, senpc, senWords,
                    senLinks, senErr, linkLog, storeBefore, dict, lookup >>

\* A second goroutine calls p.Close() while the Close that closed the pool waits
\* for the workers.  (A call that came earlier would be the one that closes the
\* pool, and is the Close of CloseCall.)
CloseConcurrentCall ==
    /\ mpc = "pool"
    /\ clpc = "wait"
    /\ cl2pc = "idle"
    /\ cl2pc' = "lock"
    /\ UNCHANGED << db, faults, workers, poolKind, callerCancelled, cancelledAtCall,
                    ctxDone, mpc, lastProcessed, i, early, jobs, poolClosed, sending,
                    liveWorkers, resultCh, closedResultCh, resultChCloses, cpc, buffer,
                    nextIdx, doneCh, buf, bwClosed, commitCh, commitClosed, bwCtxDone,
                    lastErr, batchErr, tickerExited, cmpc, tx, totalLinks, consumerErr,
                    retCount, retErr, dbAtStart, submitted, committedRun, lastCommit,
                    batchFailed, queue, poolStarted, closeMu, spc, sret, afterClose, clpc,
                    closeReturns, ran, panicked, cap, closeRet, submitRet, bwCancelled,
                    flushed, dropped, onErrors, txLog, store, foreignKeys, lastLink,
                    linkHist, linkFailures, wcall, wordRets, numWordCalls, scall, tokens,
                    senText, senpc, senWords, senLinks, senErr, linkLog, storeBefore, dict,
                    lookup >>

\* The second Close holds p.closeMu, finds the pool closed, unlocks and returns.
CloseConcurrentLock ==
    /\ cl2pc = "lock"
    /\ closeMu = 0
    /\ IF poolClosed
       THEN /\ cl2pc' = "returned"
            /\ UNCHANGED poolClosed
       ELSE /\ poolClosed' = TRUE
            /\ cl2pc' = "wait"
    /\ UNCHANGED << db, faults, workers, poolKind, callerCancelled, cancelledAtCall,
                    ctxDone, mpc, lastProcessed, i, early, jobs, sending, liveWorkers,
                    resultCh, closedResultCh, resultChCloses, cpc, buffer, nextIdx, doneCh,
                    buf, bwClosed, commitCh, commitClosed, bwCtxDone, lastErr, batchErr,
                    tickerExited, cmpc, tx, totalLinks, consumerErr, retCount, retErr,
                    dbAtStart, submitted, committedRun, lastCommit, batchFailed, queue,
                    poolStarted, closeMu, spc, sret, afterClose, clpc, closeReturns, ran,
                    panicked, cap, closeRet, submitRet, bwCancelled, flushed, dropped,
                    onErrors, txLog, store, foreignKeys, lastLink, linkHist, linkFailures,
                    wcall, wordRets, numWordCalls, scall, tokens, senText, senpc, senWords,
                    senLinks, senErr, linkLog, storeBefore, dict, lookup >>

NextPool ==
    \/ PoolStart
    \/ PoolCancel
    \/ \E s \in Submitters : SubmitCall(s)
    \/ \E s \in Submitters : SubmitLock(s)
    \/ \E s \in Submitters : SubmitSend(s)
    \/ WorkerTake
    \/ WorkerExit
    \/ JobDone
    \/ CloseCall
    \/ CloseLock
    \/ CloseWait
    \/ CloseConcurrentCall
    \/ CloseConcurrentLock

SpecPool == InitPool /\ [][NextPool]_vars

\* The scheduler runs every goroutine that can take a step: the workers, a Submit
\* or a Close that is under way.  Nothing obliges the test to call Start, Submit,
\* Close or cancel.
FairSpecPool ==
    /\ SpecPool
    /\ WF_vars(WorkerTake)
    /\ WF_vars(WorkerExit)
    /\ WF_vars(JobDone)
    /\ WF_vars(CloseLock)
    /\ WF_vars(CloseWait)
    /\ WF_vars(CloseConcurrentLock)
    /\ \A s \in Submitters : WF_vars(SubmitLock(s)) /\ WF_vars(SubmitSend(s))


\* ------------------------------------------------------------------ batch writer on its own
\* The writer used directly, as its tests do: the test submits the write callbacks
\* of the sentences in order, may call bw.cancel() itself, and calls Close.  The
\* ticker loop and the committer are those above.

\* Mutation of BwSubmit: a Submit that does not look at bw.closed.
BwSubmitUnchecked ==
    /\ mpc \in {"bwClose", "bwShutdown", "bwWait", "bwDone"}
    /\ Len(submitted) < totalSentences
    /\ \E o \in Submit(Len(submitted)) : BwInstall(o)
    /\ submitted' = Append(submitted, Len(submitted))
    /\ submitRet' = Nil
    /\ UNCHANGED << db, faults, workers, poolKind, callerCancelled, cancelledAtCall,
                    ctxDone, mpc, lastProcessed, i, early, jobs, poolClosed, sending,
                    liveWorkers, resultCh, closedResultCh, resultChCloses, cpc, buffer,
                    nextIdx, doneCh, bwClosed, commitClosed, bwCtxDone, tickerExited, cmpc,
                    tx, totalLinks, consumerErr, retCount, retErr, dbAtStart, committedRun,
                    lastCommit, queue, poolStarted, closeMu, spc, sret, afterClose, clpc,
                    cl2pc, closeReturns, ran, panicked, cap, closeRet, bwCancelled, txLog,
                    store, foreignKeys, lastLink, linkHist, linkFailures, wcall, wordRets,
                    numWordCalls, scall, tokens, senText, senpc, senWords, senLinks,
                    senErr, linkLog, storeBefore, dict, lookup >>

\* bw.Submit(w) for the next callback: refused by a closed writer, else appended
\* (and flushed when the buffer is full).
BwSubmit ==
    /\ mpc \in {"bwClose", "bwShutdown", "bwWait", "bwDone"}
    /\ Len(submitted) < totalSentences
    /\ IF bwClosed
       THEN /\ submitRet' = ErrBatchWriterClosed
            /\ UNCHANGED << submitted, buf, commitCh, lastErr, batchErr, batchFailed,
                            onErrors, flushed, dropped >>
       ELSE /\ \E o \in Submit(Len(submitted)) : BwInstall(o)
            /\ submitted' = Append(submitted, Len(submitted))
            /\ submitRet' = Nil
    /\ UNCHANGED << db, faults, workers, poolKind, callerCancelled, cancelledAtCall,
                    ctxDone, mpc, lastProcessed, i, early, jobs, poolClosed, sending,
                    liveWorkers, resultCh, closedResultCh, resultChCloses, cpc, buffer,
                    nextIdx, doneCh, bwClosed, commitClosed, bwCtxDone, tickerExited, cmpc,
                    tx, totalLinks, consumerErr, retCount, retErr, dbAtStart, committedRun,
                    lastCommit, queue, poolStarted, closeMu, spc, sret, afterClose, clpc,
                    cl2pc, closeReturns, ran, panicked, cap, closeRet, bwCancelled, txLog,
                    store, foreignKeys, lastLink, linkHist, linkFailures, wcall, wordRets,
                    numWordCalls, scall, tokens, senText, senpc, senWords, senLinks,
                    senErr, linkLog, storeBefore, dict, lookup >>

\* The test cancels the writer's context itself: bw.cancel().
BwCancel ==
    /\ mpc \in {"bwClose", "bwShutdown"}
    /\ ~bwCtxDone
    /\ bwCtxDone' = TRUE
    /\ bwCancelled' = TRUE
    /\ UNCHANGED << db, faults, workers, poolKind, callerCancelled, cancelledAtCall,
                    ctxDone, mpc, lastProcessed, i, early, jobs, poolClosed, sending,
                    liveWorkers, resultCh, closedResultCh, resultChCloses, cpc, buffer,
                    nextIdx, doneCh, buf, bwClosed, commitCh, commitClosed, lastErr,
                    batchErr, tickerExited, cmpc, tx, totalLinks, consumerErr, retCount,
                    retErr, dbAtStart, submitted, committedRun, lastCommit, batchFailed,
                    queue, poolStarted, closeMu, spc, sret, afterClose, clpc, cl2pc,
                    closeReturns, ran, panicked, cap, closeRet, submitRet, flushed,
                    dropped, onErrors, txLog, store, foreignKeys, lastLink, linkHist,
                    linkFailures, wcall, wordRets, numWordCalls, scall, tokens, senText,
                    senpc, senWords, senLinks, senErr, linkLog, storeBefore, dict, lookup >>

\* A Close that returns without waiting for the committer and the ticker loop.
BwCloseReturnNoWait ==
    /\ mpc = "bwWait"
    /\ closeRet' = Append(closeRet, lastErr)
    /\ mpc' = "bwDone"
    /\ UNCHANGED << db, faults, workers, poolKind, callerCancelled, cancelledAtCall,
                    ctxDone, lastProcessed, i, early, jobs, poolClosed, sending,
                    liveWorkers, resultCh, closedResultCh, resultChCloses, cpc, buffer,
                    nextIdx, doneCh, buf, bwClosed, commitCh, commitClosed, bwCtxDone,
                    lastErr, batchErr, tickerExited, cmpc, tx, totalLinks, consumerErr,
                    retCount, retErr, dbAtStart, submitted, committedRun, lastCommit,
                    batchFailed, queue, poolStarted, closeMu, spc, sret, afterClose, clpc,
                    cl2pc, closeReturns, ran, panicked, cap, submitRet, bwCancelled,
                    flushed, dropped, onErrors, txLog, store, foreignKeys, lastLink,
                    linkHist, linkFailures, wcall, wordRets, numWordCalls, scall, tokens,
                    senText, senpc, senWords, senLinks, senErr, linkLog, storeBefore, dict,
                    lookup >>

\* bw.wg.Wait() is over: Close returns lastErr.
BwCloseReturn ==
    /\ mpc = "bwWait"
    /\ cmpc = "exited"
    /\ tickerExited
    /\ closeRet' = Append(closeRet, lastErr)
    /\ mpc' = "bwDone"
    /\ UNCHANGED << db, faults, workers, poolKind, callerCancelled, cancelledAtCall,
                    ctxDone, lastProcessed, i, early, jobs, poolClosed, sending,
                    liveWorkers, resultCh, closedResultCh, resultChCloses, cpc, buffer,
                    nextIdx, doneCh, buf, bwClosed, commitCh, commitClosed, bwCtxDone,
                    lastErr, batchErr, tickerExited, cmpc, tx, totalLinks, consumerErr,
                    retCount, retErr, dbAtStart, submitted, committedRun, lastCommit,
                    batchFailed, queue, poolStarted, closeMu, spc, sret, afterClose, clpc,
                    cl2pc, closeReturns, ran, panicked, cap, submitRet, bwCancelled,
                    flushed, dropped, onErrors, txLog, store, foreignKeys, lastLink,
                    linkHist, linkFailures, wcall, wordRets, numWordCalls, scall, tokens,
                    senText, senpc, senWords, senLinks, senErr, linkLog, storeBefore, dict,
                    lookup >>

\* Mutation of BwCloseAgain: a Close that does not look at bw.closed and goes on
\* to cancel and to close commitCh once more.
BwCloseAgainUnchecked ==
    /\ mpc = "bwDone"
    /\ bwClosed
    /\ Len(closeRet) < MaxCloses
    /\ mpc' = "bwShutdown"
    /\ UNCHANGED << db, faults, workers, poolKind, callerCancelled, cancelledAtCall,
                    ctxDone, lastProcessed, i, early, jobs, poolClosed, sending,
                    liveWorkers, resultCh, closedResultCh, resultChCloses, cpc, buffer,
                    nextIdx, doneCh, buf, bwClosed, commitCh, commitClosed, bwCtxDone,
                    lastErr, batchErr, tickerExited, cmpc, tx, totalLinks, consumerErr,
                    retCount, retErr, dbAtStart, submitted, committedRun, lastCommit,
                    batchFailed, queue, poolStarted, closeMu, spc, sret, afterClose, clpc,
                    cl2pc, closeReturns, ran, panicked, cap, closeRet, submitRet,
                    bwCancelled, flushed, dropped, onErrors, txLog, store, foreignKeys,
                    lastLink, linkHist, linkFailures, wcall, wordRets, numWordCalls, scall,
                    tokens, senText, senpc, senWords, senLinks, senErr, linkLog,
                    storeBefore, dict, lookup >>

\* Close on a closed writer returns ErrBatchWriterClosed at once.
BwCloseAgain ==
    /\ mpc = "bwDone"
    /\ bwClosed
    /\ Len(closeRet) < MaxCloses
    /\ closeRet' = Append(closeRet, ErrBatchWriterClosed)
    /\ UNCHANGED << db, faults, workers, poolKind, callerCancelled, cancelledAtCall,
                    ctxDone, mpc, lastProcessed, i, early, jobs, poolClosed, sending,
                    liveWorkers, resultCh, closedResultCh, resultChCloses, cpc, buffer,
                    nextIdx, doneCh, buf, bwClosed, commitCh, commitClosed, bwCtxDone,
                    lastErr, batchErr, tickerExited, cmpc, tx, totalLinks, consumerErr,
                    retCount, retErr, dbAtStart, submitted, committedRun, lastCommit,
                    batchFailed, queue, poolStarted, closeMu, spc, sret, afterClose, clpc,
                    cl2pc, closeReturns, ran, panicked, cap, submitRet, bwCancelled,
                    flushed, dropped, onErrors, txLog, store, foreignKeys, lastLink,
                    linkHist, linkFailures, wcall, wordRets, numWordCalls, scall, tokens,
                    senText, senpc, senWords, senLinks, senErr, linkLog, storeBefore, dict,
                    lookup >>

NextBatchWriter ==
    \/ BwSubmit
    \/ BwCancel
    \/ TickerFlush
    \/ TickerExit
    \/ CommitterBegin
    \/ CommitterCallback
    \/ CommitterCommit
    \/ CommitterExit
    \/ BwClose
    \/ BwShutdown
    \/ BwCloseReturn
    \/ BwCloseAgain

SpecBatchWriter == InitBatchWriter /\ [][NextBatchWriter]_vars

\* The scheduler runs the committer and, when the writer has one, the ticker
\* loop, whose ticker keeps ticking until Close stops it.  Nothing obliges the
\* test to call Submit, cancel or Close.
FairSpecBatchWriter ==
    /\ SpecBatchWriter
    /\ WF_vars(TickerStep)
    /\ WF_vars(CommitterStep)

\* ================================================================== the store
\* The store functions on their own, as the tests of the db package call them:
\* every statement runs on the database handle and is committed by itself.

\* Values every stand-alone store specification gives to the pipeline's state.
NoPipeline ==
    /\ db = StoreAfter(-1)
    /\ faults = 0
    /\ workers = 1
    /\ poolKind = "real"
    /\ callerCancelled = FALSE
    /\ queue = workers * QueueFactor
    /\ cap = BatchSize
    /\ tickerExited = FALSE
    /\ Quiet

\* ------------------------------------------------------------------ LinkWordToSource
TextOf(k) == << ToString(k) >>

\* The store of the link tests: one word and one source created through the store.
StoreWithWord ==
    InsertSource(CreateOrGetWord(EmptyStore, << "n" >>, "n", "", "", "ja").t,
                 << "w" >>, "", "", "u").t

InitLink ==
    /\ NoPipeline
    /\ mpc = "link"
    /\ store = StoreWithWord
    /\ foreignKeys \in BOOLEAN
    /\ CallsQuiet
    /\ SentenceQuiet
    /\ DictQuiet

\* The ids and increments of a call: the word and the source of the store, a word
\* id that is not in the store, and one call for each way of failing the
\* validation.
LinkArgs ==
    {[wordID |-> w, sourceID |-> 1, incrementAmount |-> n] :
        w \in 1..2, n \in 1..MaxIncrement}
    \cup {[wordID |-> 0, sourceID |-> 1, incrementAmount |-> 1],
          [wordID |-> -1, sourceID |-> 1, incrementAmount |-> 1],
          [wordID |-> 1, sourceID |-> 0, incrementAmount |-> 1],
          [wordID |-> 1, sourceID |-> 1, incrementAmount |-> 0]}

\* The context of a call: blank, the first text padded, the text interned last,
\* or the next new text (texts are numbered in the order of their first use);
\* the example of a call is empty or its context.
Contexts ==
    {<< Space >>, << Space >> \o TextOf(1) \o << Space >>}
    \cup {TextOf(k) : k \in {j \in 1..NumTexts : j <= Len(store.sentences) + 1
                                                 /\ j >= Len(store.sentences)}}

RECURSIVE SumColumn(_)
SumColumn(rows) ==
    IF rows = << >> THEN 0 ELSE Head(rows).occurrence_count + SumColumn(Tail(rows))

TotalOccurrenceCount(t) == SumColumn(t.word_sources)

\* One call of LinkWordToSource.
LinkCall ==
    /\ mpc = "link"
    /\ \E a \in LinkArgs, context \in Contexts : \E example \in {<< >>, context} :
        LET o == LinkWordToSourceRows(store, foreignKeys, a.wordID, a.sourceID,
                                      context, example, a.incrementAmount)
            pair == << a.wordID, a.sourceID >>
            sum == IF pair \in DOMAIN linkHist THEN linkHist[pair].sum ELSE 0
        IN  /\ TotalOccurrenceCount(store) + a.incrementAmount <= MaxOccurrences
            /\ store' = o.t
            /\ lastLink' = [wordID |-> a.wordID, sourceID |-> a.sourceID,
                            incrementAmount |-> a.incrementAmount, err |-> o.err]
            /\ o.err = Nil \/ linkFailures < MaxLinkFailures
            /\ linkFailures' = IF o.err = Nil THEN linkFailures ELSE linkFailures + 1
            /\ linkHist' =
                   IF o.err = Nil
                   THEN (pair :> [sum |-> sum + a.incrementAmount,
                                  context |-> TrimSpace(context),
                                  example |-> TrimSpace(example)]) @@ linkHist
                   ELSE linkHist
    /\ UNCHANGED << db, faults, workers, poolKind, callerCancelled, cancelledAtCall,
                    ctxDone, mpc, lastProcessed, i, early, jobs, poolClosed, sending,
                    liveWorkers, resultCh, closedResultCh, resultChCloses, cpc, buffer,
                    nextIdx, doneCh, buf, bwClosed, commitCh, commitClosed, bwCtxDone,
                    lastErr, batchErr, tickerExited, cmpc, tx, totalLinks, consumerErr,
                    retCount, retErr, dbAtStart, submitted, committedRun, lastCommit,
                    batchFailed, queue, poolStarted, closeMu, spc, sret, afterClose, clpc,
                    cl2pc, closeReturns, ran, panicked, cap, closeRet, submitRet,
                    bwCancelled, flushed, dropped, onErrors, txLog, foreignKeys, wcall,
                    wordRets, numWordCalls, scall, tokens, senText, senpc, senWords,
                    senLinks, senErr, linkLog, storeBefore, dict, lookup >>

NextLink == LinkCall

SpecLink == InitLink /\ [][NextLink]_vars

\* ------------------------------------------------------------------ CreateOrGetWord
InitWords ==
    /\ NoPipeline
    /\ mpc = "words"
    /\ StoreQuiet
    /\ SentenceQuiet
    /\ DictQuiet

\* The arguments of a call: bare, padded and blank words over a few lemmas,
\* languages, readings and definitions.
WordArgs ==
    {[word |-> w, lemma |-> l.lemma, language |-> l.language, reading |-> r.reading,
      definitions |-> r.definitions] :
        w \in {<< "n" >>, << Space, "n", Space >>, << "k" >>, << Space >>},
        l \in {[lemma |-> "l", language |-> "ja"], [lemma |-> "", language |-> "ja"],
               [lemma |-> "l", language |-> "en"]},
        r \in {[reading |-> "", definitions |-> ""],
               [reading |-> "r", definitions |-> "d"]}}

\* A goroutine calls CreateOrGetWord: the word is trimmed and an empty one refused.
WordCall(p) ==
    /\ mpc = "words"
    /\ wcall[p].pc # "upsert"
    /\ numWordCalls < MaxWordCalls
    /\ numWordCalls' = numWordCalls + 1
    /\ \E a \in WordArgs :
        wcall' = [wcall EXCEPT ![p] =
                    IF TrimSpace(a.word) = << >>
                    THEN [pc |-> "returned", id |-> 0, err |-> ErrEmptyWord]
                    ELSE [pc |-> "upsert", args |-> a]]
    /\ UNCHANGED << db, faults, workers, poolKind, callerCancelled, cancelledAtCall,
                    ctxDone, mpc, lastProcessed, i, early, jobs, poolClosed, sending,
                    liveWorkers, resultCh, closedResultCh, resultChCloses, cpc, buffer,
                    nextIdx, doneCh, buf, bwClosed, commitCh, commitClosed, bwCtxDone,
                    lastErr, batchErr, tickerExited, cmpc, tx, totalLinks, consumerErr,
                    retCount, retErr, dbAtStart, submitted, committedRun, lastCommit,
                    batchFailed, queue, poolStarted, closeMu, spc, sret, afterClose, clpc,
                    cl2pc, closeReturns, ran, panicked, cap, closeRet, submitRet,
                    bwCancelled, flushed, dropped, onErrors, txLog, store, foreignKeys,
                    lastLink, linkHist, linkFailures, wordRets, scall, tokens, senText,
                    senpc, senWords, senLinks, senErr, linkLog, storeBefore, dict, lookup >>

\* Its statement runs, and the call returns the id.
WordUpsert(p) ==
    /\ mpc = "words"
    /\ wcall[p].pc = "upsert"
    /\ LET a == wcall[p].args
           o == CreateOrGetWord(store, a.word, a.lemma, a.reading, a.definitions,
                                a.language)
       IN  /\ store' = o.t
           /\ wcall' = [wcall EXCEPT ![p] = [pc |-> "returned", id |-> o.id,
                                             err |-> o.err]]
           /\ wordRets' = wordRets \cup
                  {[word |-> TrimSpace(a.word), lemma |-> a.lemma,
                    language |-> a.language, id |-> o.id]}
    /\ UNCHANGED << db, faults, workers, poolKind, callerCancelled, cancelledAtCall,
                    ctxDone, mpc, lastProcessed, i, early, jobs, poolClosed, sending,
                    liveWorkers, resultCh, closedResultCh, resultChCloses, cpc, buffer,
                    nextIdx, doneCh, buf, bwClosed, commitCh, commitClosed, bwCtxDone,
                    lastErr, batchErr, tickerExited, cmpc, tx, totalLinks, consumerErr,
                    retCount, retErr, dbAtStart, submitted, committedRun, lastCommit,
                    batchFailed, queue, poolStarted, closeMu, spc, sret, afterClose, clpc,
                    cl2pc, closeReturns, ran, panicked, cap, closeRet, submitRet,
                    bwCancelled, flushed, dropped, onErrors, txLog, foreignKeys, lastLink,
                    linkHist, linkFailures, numWordCalls, scall, tokens, senText, senpc,
                    senWords, senLinks, senErr, linkLog, storeBefore, dict, lookup >>

NextWords == \E p \in WordCallers : WordCall(p) \/ WordUpsert(p)

SpecWords == InitWords /\ [][NextWords]_vars

\* ------------------------------------------------------------------ CreateOrGetSource
InitSources ==
    /\ NoPipeline
    /\ mpc = "sources"
    /\ StoreQuiet
    /\ SentenceQuiet
    /\ DictQuiet

SourceKeys ==
    {[url |-> "u", title |-> "", author |-> ""],
     [url |-> "u", title |-> "t", author |-> ""]}

SourceReturned(id, err, key, attempt) ==
    [pc |-> "returned", id |-> id, err |-> err, key |-> key, attempt |-> attempt]

\* A goroutine calls CreateOrGetSource: the source type is trimmed and an empty
\* one refused; otherwise the first attempt begins.
SourceCall(p) ==
    /\ mpc = "sources"
    /\ scall[p].pc = "idle"
    /\ \E sourceType \in {<< "w" >>, << Space >>}, key \in SourceKeys :
        scall' = [scall EXCEPT ![p] =
                    IF TrimSpace(sourceType) = << >>
                    THEN SourceReturned(0, ErrEmptySourceType, key, 0)
                    ELSE [pc |-> "select", attempt |-> 0, key |-> key,
                          sourceType |-> TrimSpace(sourceType)]]
    /\ UNCHANGED << db, faults, workers, poolKind, callerCancelled, cancelledAtCall,
                    ctxDone, mpc, lastProcessed, i, early, jobs, poolClosed, sending,
                    liveWorkers, resultCh, closedResultCh, resultChCloses, cpc, buffer,
                    nextIdx, doneCh, buf, bwClosed, commitCh, commitClosed, bwCtxDone,
                    lastErr, batchErr, tickerExited, cmpc, tx, totalLinks, consumerErr,
                    retCount, retErr, dbAtStart, submitted, committedRun, lastCommit,
                    batchFailed, queue, poolStarted, closeMu, spc, sret, afterClose, clpc,
                    cl2pc, closeReturns, ran, panicked, cap, closeRet, submitRet,
                    bwCancelled, flushed, dropped, onErrors, txLog, store, foreignKeys,
                    lastLink, linkHist, linkFailures, wcall, wordRets, numWordCalls,
                    tokens, senText, senpc, senWords, senLinks, senErr, linkLog,
                    storeBefore, dict, lookup >>

\* The SELECT of an attempt: an existing row is returned.
SourceSelect(p) ==
    /\ mpc = "sources"
    /\ scall[p].pc = "select"
    /\ LET c == scall[p]
           id == SelectSource(store, c.key.title, c.key.author, c.key.url)
       IN  scall' = [scall EXCEPT ![p] =
                        IF id # 0 THEN SourceReturned(id, Nil, c.key, c.attempt)
                        ELSE [c EXCEPT !.pc = "insert"]]
    /\ UNCHANGED << db, faults, workers, poolKind, callerCancelled, cancelledAtCall,
                    ctxDone, mpc, lastProcessed, i, early, jobs, poolClosed, sending,
                    liveWorkers, resultCh, closedResultCh, resultChCloses, cpc, buffer,
                    nextIdx, doneCh, buf, bwClosed, commitCh, commitClosed, bwCtxDone,
                    lastErr, batchErr, tickerExited, cmpc, tx, totalLinks, consumerErr,
                    retCount, retErr, dbAtStart, submitted, committedRun, lastCommit,
                    batchFailed, queue, poolStarted, closeMu, spc, sret, afterClose, clpc,
                    cl2pc, closeReturns, ran, panicked, cap, closeRet, submitRet,
                    bwCancelled, flushed, dropped, onErrors, txLog, store, foreignKeys,
                    lastLink, linkHist, linkFailures, wcall, wordRets, numWordCalls,
                    tokens, senText, senpc, senWords, senLinks, senErr, linkLog,
                    storeBefore, dict, lookup >>

\* The INSERT of an attempt: on a unique conflict the next attempt begins, or the
\* call gives up after maxRetries attempts.
SourceInsert(p) ==
    /\ mpc = "sources"
    /\ scall[p].pc = "insert"
    /\ LET c == scall[p]
           o == InsertSource(store, c.sourceType, c.key.title, c.key.author, c.key.url)
       IN  /\ store' = o.t
           /\ scall' = [scall EXCEPT ![p] =
                  IF o.err = Nil THEN SourceReturned(o.id, Nil, c.key, c.attempt)
                  ELSE IF ~isUniqueConstraintErr(o.err) THEN SourceReturned(0, o.err, c.key, c.attempt)
                  ELSE IF c.attempt + 1 < maxRetries
                       THEN [c EXCEPT !.pc = "select", !.attempt = @ + 1]
                       ELSE SourceReturned(0, ErrRetries, c.key, c.attempt + 1)]
    /\ UNCHANGED << db, faults, workers, poolKind, callerCancelled, cancelledAtCall,
                    ctxDone, mpc, lastProcessed, i, early, jobs, poolClosed, sending,
                    liveWorkers, resultCh, closedResultCh, resultChCloses, cpc, buffer,
                    nextIdx, doneCh, buf, bwClosed, commitCh, commitClosed, bwCtxDone,
                    lastErr, batchErr, tickerExited, cmpc, tx, totalLinks, consumerErr,
                    retCount, retErr, dbAtStart, submitted, committedRun, lastCommit,
                    batchFailed, queue, poolStarted, closeMu, spc, sret, afterClose, clpc,
                    cl2pc, closeReturns, ran, panicked, cap, closeRet, submitRet,
                    bwCancelled, flushed, dropped, onErrors, txLog, foreignKeys, lastLink,
                    linkHist, linkFailures, wcall, wordRets, numWordCalls, tokens, senText,
                    senpc, senWords, senLinks, senErr, linkLog, storeBefore, dict, lookup >>

NextSources == \E p \in SourceCallers : SourceCall(p) \/ SourceSelect(p) \/ SourceInsert(p)

SpecSources == InitSources /\ [][NextSources]_vars

\* ------------------------------------------------------------------ one sentence
\* The ingestion of one sentence down to the tables: processSentence, then the
\* write callback of the consumer in a transaction of its own.
ErrPersist == "failed to persist word"

\* UpdateSourceProgress on the sources table.
UpdateSourceProgressRow(t, sourceID, index) ==
    IF sourceID \in 1..Len(t.sources)
    THEN [t EXCEPT !.sources[sourceID].last_processed_sentence = index]
    ELSE t

\* The loop of the write callback over the words: CreateOrGetWord, then
\* LinkWordToSource with the sentence as context and example and the word's
\* count as increment, then totalLinks += count; the first error ends it.
RECURSIVE LinkWordsRows(_, _, _, _, _)
LinkWordsRows(t, fk, words, sourceID, text) ==
    IF words = << >> THEN [t |-> t, err |-> Nil, links |-> 0, log |-> << >>]
    ELSE LET front == LinkWordsRows(t, fk, SubSeq(words, 1, Len(words) - 1), sourceID,
                                    text)
             w == words[Len(words)]
             c == CreateOrGetWord(front.t, << w.Word >>, w.Word, "", "", "ja")
             l == LinkWordToSourceRows(c.t, fk, c.id, sourceID, text, text, w.Count)
             call == [word |-> w.Word, wordID |-> c.id, incrementAmount |-> w.Count]
         IN  IF front.err # Nil THEN front
             ELSE IF c.err # Nil THEN [front EXCEPT !.err = ErrPersist]
             ELSE IF l.err # Nil
             THEN [t |-> l.t, err |-> l.err, links |-> front.links,
                   log |-> Append(front.log, call)]
             ELSE [t |-> l.t, err |-> Nil, links |-> front.links + w.Count,
                   log |-> Append(front.log, call)]

\* The write callback of a sentence, run on the tables t of its transaction.
WriteCallbackRows(t, fk, words, sourceID, text, index) ==
    LET r == LinkWordsRows(t, fk, words, sourceID, text)
    IN  IF r.err # Nil THEN r
        ELSE [r EXCEPT !.t = UpdateSourceProgressRow(r.t, sourceID, index)]

TokenUniverse ==
    {Tok("neko", "neko", << "meishi" >>), Tok("neko", "*", << "meishi" >>),
     Tok("kai", "kaku", << "doushi" >>), Tok("kaku", "", << "doushi" >>),
     Tok("ha", "ha", << "meishi" >>), Tok("ha", "ha", << "joshi" >>),
     Tok("masi", "masu", << "jodoushi" >>), Tok("maru", "maru", << "kigou" >>),
     Tok("kakko", "kakko", << "hojokigou" >>), Tok("san", "san", << "meishi", "suu" >>),
     Tok("A", "neko", << "meishi" >>)}

TokenLists == UNION {[1..n -> TokenUniverse] : n \in 0..MaxTokens}

\* The store with one source and nothing else.
StoreWithSource == InsertSource(EmptyStore, << "w" >>, "", "", "u").t

\* The store after a first sentence, the first text with the one token neko, was
\* ingested for that source.
StoreAfterFirst ==
    WriteCallbackRows(StoreWithSource, TRUE,
                      processTokens(<< Tok("neko", "neko", << "meishi" >>) >>), 1,
                      TextOf(1), 0).t

\* The index of the sentence: the one after the stored checkpoint.
SentenceIndex == store.sources[1].last_processed_sentence + 1

InitSentence ==
    /\ NoPipeline
    /\ mpc = "sentence"
    /\ store \in {StoreWithSource, StoreAfterFirst}
    /\ foreignKeys = TRUE
    /\ CallsQuiet
    /\ tokens \in TokenLists
    /\ senText \in {TextOf(1), TextOf(2)}
    /\ senpc = "input"
    /\ senWords = << >>
    /\ senLinks = 0
    /\ senErr = Nil
    /\ linkLog = << >>
    /\ storeBefore = store
    /\ DictQuiet

\* A worker runs processSentence on the tokens.
SentenceProcess ==
    /\ mpc = "sentence"
    /\ senpc = "input"
    /\ senWords' = processTokens(tokens)
    /\ senpc' = "processed"
    /\ UNCHANGED << db, faults, workers, poolKind, callerCancelled, cancelledAtCall,
                    ctxDone, mpc, lastProcessed, i, early, jobs, poolClosed, sending,
                    liveWorkers, resultCh, closedResultCh, resultChCloses, cpc, buffer,
                    nextIdx, doneCh, buf, bwClosed, commitCh, commitClosed, bwCtxDone,
                    lastErr, batchErr, tickerExited, cmpc, tx, totalLinks, consumerErr,
                    retCount, retErr, dbAtStart, submitted, committedRun, lastCommit,
                    batchFailed, queue, poolStarted, closeMu, spc, sret, afterClose, clpc,
                    cl2pc, closeReturns, ran, panicked, cap, closeRet, submitRet,
                    bwCancelled, flushed, dropped, onErrors, txLog, store, foreignKeys,
                    lastLink, linkHist, linkFailures, wcall, wordRets, numWordCalls, scall,
                    tokens, senText, senLinks, senErr, linkLog, storeBefore, dict, lookup >>

\* The committer runs the callback of the sentence in a transaction and commits
\* it, or rolls it back when the callback fails.
SentenceWrite ==
    /\ mpc = "sentence"
    /\ senpc = "processed"
    /\ LET r == WriteCallbackRows(store, foreignKeys, senWords, 1, senText,
                                  SentenceIndex)
       IN  /\ store' = IF r.err = Nil THEN r.t ELSE store
           /\ senLinks' = r.links
           /\ senErr' = r.err
           /\ linkLog' = r.log
    /\ storeBefore' = store
    /\ senpc' = "written"
    /\ UNCHANGED << db, faults, workers, poolKind, callerCancelled, cancelledAtCall,
                    ctxDone, mpc, lastProcessed, i, early, jobs, poolClosed, sending,
                    liveWorkers, resultCh, closedResultCh, resultChCloses, cpc, buffer,
                    nextIdx, doneCh, buf, bwClosed, commitCh, commitClosed, bwCtxDone,
                    lastErr, batchErr, tickerExited, cmpc, tx, totalLinks, consumerErr,
                    retCount, retErr, dbAtStart, submitted, committedRun, lastCommit,
                    batchFailed, queue, poolStarted, closeMu, spc, sret, afterClose, clpc,
                    cl2pc, closeReturns, ran, panicked, cap, closeRet, submitRet,
                    bwCancelled, flushed, dropped, onErrors, txLog, foreignKeys, lastLink,
                    linkHist, linkFailures, wcall, wordRets, numWordCalls, scall, tokens,
                    senText, senWords, dict, lookup >>

NextSentence == SentenceProcess \/ SentenceWrite

SpecSentence == InitSentence /\ [][NextSentence]_vars

\* ================================================================== the dictionary
\* Importer.Lookup on an index built by NewImporter.  A text is the sequence of
\* its runes (code points); an entry id is the sequence of its digits, compared
\* as Go compares strings.

\* neko and inu in kanji, katakana and hiragana.
TextNekoKanji == << 29483 >>
TextNekoKata == << 12493, 12467 >>
TextNekoHira == << 12397, 12371 >>
TextInuHira == << 12356, 12396 >>

\* The ids of the entries of a dictionary, in the order of the entries.
DictIds == << << 9 >>, << 1, 0 >>, << 2 >> >>

\* Mutation of ToHiragana: the text as it is.
ToHiraganaUnchanged(s) == s

\* ToHiragana: the runes 0x30A1..0x30F6 are moved down by 0x60.
ToHiragana(s) ==
    [k \in 1..Len(s) |->
        IF s[k] >= KatakanaFirst /\ s[k] <= KatakanaLast THEN s[k] - KanaShift ELSE s[k]]

\* a < b on strings.
RECURSIVE LessId(_, _)
LessId(a, b) ==
    IF a = << >> THEN b # << >>
    ELSE IF b = << >> THEN FALSE
    ELSE IF Head(a) # Head(b) THEN Head(a) < Head(b)
    ELSE LessId(Tail(a), Tail(b))

\* NewImporter: index[term] lists an entry once for each of its kanji and kana
\* elements with that text, in the order of the entries.
RECURSIVE IndexOf(_, _)
IndexOf(entries, term) ==
    IF entries = << >> THEN << >>
    ELSE LET e == Head(entries)
             kanji == SelectSeq(e.Kanji, LAMBDA x : x = term)
             kana == SelectSeq(e.Kana, LAMBDA x : x = term)
         IN  [k \in 1..(Len(kanji) + Len(kana)) |-> e] \o IndexOf(Tail(entries), term)

\* candidates[e.Id] = e for the entries of a list, in order.
RECURSIVE PutAll(_, _)
PutAll(candidates, entries) ==
    IF entries = << >> THEN candidates
    ELSE PutAll({c \in candidates : c.Id # Head(entries).Id} \cup {Head(entries)},
                Tail(entries))

\* The search helper of findMatches: an empty term finds nothing.
search(candidates, entries, term) ==
    IF term = << >> THEN candidates ELSE PutAll(candidates, IndexOf(entries, term))

\* isMatch: a kanji or kana text is the word or the lemma, and, for a non-empty
\* pronunciation, a kana text has the same hiragana form as the pronunciation.
isMatch(entry, word, lemma, pronunciation) ==
    LET hasText ==
            \/ \E k \in 1..Len(entry.Kanji) :
                entry.Kanji[k] = word \/ entry.Kanji[k] = lemma
            \/ \E k \in 1..Len(entry.Kana) :
                entry.Kana[k] = word \/ entry.Kana[k] = lemma
        normalizedPron == ToHiragana(pronunciation)
        hasReading == \E k \in 1..Len(entry.Kana) :
                        ToHiragana(entry.Kana[k]) = normalizedPron
    IN  IF ~hasText THEN FALSE
        ELSE IF pronunciation = << >> THEN TRUE
        ELSE hasReading

\* sort.Slice(results, ... results[i].Id < results[j].Id) on results that the
\* candidates map has made distinct in their ids.
RECURSIVE SortById(_)
SortById(results) ==
    IF results = {} THEN << >>
    ELSE LET first == CHOOSE e \in results :
                        \A o \in results \ {e} : ~LessId(o.Id, e.Id)
         IN  << first >> \o SortById(results \ {first})

\* findMatches: the candidates of word and lemma that match, sorted by id.
findMatches(entries, word, lemma, pronunciation) ==
    LET candidates == search(search({}, entries, word), entries, lemma)
        results == {e \in candidates : isMatch(e, word, lemma, pronunciation)}
    IN  SortById(results)

\* The kanji and kana elements an entry may have.
EntryShapes ==
    {[Kanji |-> kanji, Kana |-> kana] :
        kanji \in {<< >>, << TextNekoKanji >>},
        kana \in {<< TextNekoHira >>, << TextNekoKata >>, << TextInuHira >>}}

\* The dictionaries: up to MaxEntries entries with distinct ids.
Dictionaries ==
    UNION {{[k \in 1..n |-> [Id |-> DictIds[((k - 1) % Len(DictIds)) + 1]
                                      \o [j \in 1..((k - 1) \div Len(DictIds)) |-> 0],
                             Kanji |-> shapes[k].Kanji, Kana |-> shapes[k].Kana]] :
             shapes \in [1..n -> EntryShapes]} : n \in 0..MaxEntries}

InitDict ==
    /\ NoPipeline
    /\ mpc = "dict"
    /\ StoreQuiet
    /\ SentenceQuiet
    /\ dict \in Dictionaries
    /\ lookup = NoLookup

\* Importer.Lookup(word, lemma, pronunciation).
Lookup ==
    /\ mpc = "dict"
    /\ \E word \in {<< >>, TextNekoKanji, TextNekoKata, TextInuHira},
          lemma \in {<< >>, TextNekoKanji, TextNekoHira},
          pronunciation \in {<< >>, TextNekoKata, TextNekoHira, TextInuHira} :
        lookup' = [word |-> word, lemma |-> lemma, pronunciation |-> pronunciation,
                   called |-> TRUE,
                   matches |-> findMatches(dict, word, lemma, pronunciation)]
    /\ UNCHANGED << db, faults, workers, poolKind, callerCancelled, cancelledAtCall,
                    ctxDone, mpc, lastProcessed, i, early, jobs, poolClosed, sending,
                    liveWorkers, resultCh, closedResultCh, resultChCloses, cpc, buffer,
                    nextIdx, doneCh, buf, bwClosed, commitCh, commitClosed, bwCtxDone,
                    lastErr, batchErr, tickerExited, cmpc, tx, totalLinks, consumerErr,
                    retCount, retErr, dbAtStart, submitted, committedRun, lastCommit,
                    batchFailed, queue, poolStarted, closeMu, spc, sret, afterClose, clpc,
                    cl2pc, closeReturns, ran, panicked, cap, closeRet, submitRet,
                    bwCancelled, flushed, dropped, onErrors, txLog, store, foreignKeys,
                    lastLink, linkHist, linkFailures, wcall, wordRets, numWordCalls, scall,
                    tokens, senText, senpc, senWords, senLinks, senErr, linkLog,
                    storeBefore, dict >>

NextDict == Lookup

SpecDict == InitDict /\ [][NextDict]_vars

\* ------------------------------------------------------------------ properties
RECURSIVE Flatten(_)
Flatten(batches) ==
    IF batches = <<>> THEN <<>> ELSE Head(batches) \o Flatten(Tail(batches))

\* The callbacks handed to the batch writer that no transaction has run yet.
Pending == tx.batch \o Flatten(commitCh) \o buf

IsSuffix(s, t) ==
    /\ Len(s) <= Len(t)
    /\ \A k \in 1..Len(s) : s[k] = t[Len(t) - Len(s) + k]

Started == mpc # "start" /\ lastProcessed + 1 < totalSentences
Returned == mpc = "returned" /\ lastProcessed + 1 < totalSentences

OpsIdx(ops, kind) == {ops[k].idx : k \in {n \in 1..Len(ops) : ops[n].op = kind}}
OpsCount(ops, kind, idx) ==
    Cardinality({n \in 1..Len(ops) : ops[n].op = kind /\ ops[n].idx = idx})

\* Occurrences of word w over the sentences of S.
TotalOccurrences(S, w) == SumOver(S, [j \in Indices |-> wordCounts(sentences[j], w)])

\* C1: whenever the committed checkpoint of the source is k, the callbacks committed
\* by the running call are exactly those of the sentences from its start index up
\* to k: none is missing and none beyond k is committed.
C1_CheckpointIsCommittedPrefix ==
    mpc # "start" =>
        IF committedRun = {}
        THEN db.last = dbAtStart.last
        ELSE committedRun = (lastProcessed + 1)..db.last

\* C2: a committed transaction that contains link writes of sentence i also contains
\* the checkpoint write of i, a checkpoint write of i comes with all the link writes
\* of i, and the checkpoint left by the commit is the highest index of the batch.
C2_WritesCommitWithCheckpoint ==
    LET ops == lastCommit.ops
        linked == OpsIdx(ops, "link")
        marked == OpsIdx(ops, "progress")
    IN  /\ linked \subseteq marked
        /\ \A idx \in marked :
            /\ OpsCount(ops, "progress", idx) = 1
            /\ OpsCount(ops, "link", idx) = Len(processSentence(idx))
        /\ ops # <<>> => /\ marked # {}
                         /\ lastCommit.last = Max(marked)

\* C2 witness: a committed transaction of two sentences, one of them with words.
C2_Witness ==
    /\ Cardinality(OpsIdx(lastCommit.ops, "progress")) = 2
    /\ OpsIdx(lastCommit.ops, "link") # {}
    /\ db.last = lastCommit.last

\* C3: the callbacks reach the batch writer in increasing sentence order without
\* gaps from the start index, and the callbacks not yet run wait in that same order.
C3_OrderedSubmission ==
    mpc # "start" =>
        /\ \A k \in 1..Len(submitted) : submitted[k] = lastProcessed + k
        /\ IsSuffix(Pending, submitted)

\* C3 witness: a result is held back in the reorder buffer because its predecessor
\* has not arrived, after an earlier sentence was handed on.
C3_Witness ==
    /\ Len(submitted) >= 1
    /\ \E j \in buffer : j > nextIdx
    /\ nextIdx \notin buffer

C5_ResumeCountsEachSentenceOnce ==
    faults = 0 =>
        /\ mpc # "start" => lastProcessed = dbAtStart.last
        /\ Started => /\ nextIdx = dbAtStart.last + 1 + Len(submitted)
                      /\ i > dbAtStart.last
                      /\ \A j \in Range(jobs) \cup sending \cup Range(resultCh) \cup buffer
                                \cup Range(submitted) : j > dbAtStart.last
        /\ \A j \in Indices : db.applied[j] = IF j <= db.last THEN 1 ELSE 0
        /\ \A w \in WordUniverse :
            db.occ[w] = TotalOccurrences({j \in Indices : j <= db.last}, w)
        /\ db.last = totalSentences - 1 =>
            \A w \in WordUniverse : db.occ[w] = TotalOccurrences(Indices, w)

\* C5 witness: a call that resumed from the checkpoint an interrupted call left
\* has finished the list.
C5_Witness ==
    /\ faults = 0
    /\ dbAtStart.last \in 0..(totalSentences - 2)
    /\ committedRun # {}
    /\ db.last = totalSentences - 1

\* C6: a call that starts from the stored checkpoint p and returns nil without a
\* cancellation has committed exactly the sentences p+1..len-1, returns the sum of
\* their occurrence counts and leaves the checkpoint at len(sentences)-1.
C6_ResumeWritesOnlyTheRest ==
    (/\ mpc = "returned"
     /\ lastProcessed = dbAtStart.last
     /\ retErr = Nil
     /\ ~callerCancelled) =>
        /\ committedRun = (dbAtStart.last + 1)..(totalSentences - 1)
        /\ Range(submitted) = committedRun
        /\ retCount = SumOver(committedRun, [j \in Indices |-> Occurrences(j)])
        /\ db.last = totalSentences - 1

\* C6 witness: a call resumed from a checkpoint p >= 0 has returned nil.
C6_Witness ==
    /\ mpc = "returned"
    /\ dbAtStart.last \in 0..(totalSentences - 2)
    /\ lastProcessed = dbAtStart.last
    /\ retErr = Nil
    /\ ~callerCancelled
    /\ retCount > 0

\* C7: a call that returns with the caller's context cancelled and not every
\* sentence handed to the batch writer returns context.Canceled (stated for the
\* calls of the real pool in which no database operation failed).
C7_CancelReturnsCanceled ==
    (/\ Returned
     /\ poolKind = "real"
     /\ faults = 0
     /\ callerCancelled
     /\ Len(submitted) < totalSentences - (lastProcessed + 1)) =>
        retErr = Canceled

\* C8: a call made with an already cancelled context and a sentence left to do
\* runs no write callback, changes nothing in the store and returns (0, Canceled).
C8_CancelledAtCall ==
    (Started /\ cancelledAtCall) =>
        /\ submitted = <<>>
        /\ cmpc # "intx"
        /\ totalLinks = 0
        /\ db = dbAtStart
        /\ mpc = "returned" => (retCount = 0 /\ retErr = Canceled)

\* C8 witness: such a call has returned.
C8_Witness ==
    /\ Returned
    /\ cancelledAtCall
    /\ retErr = Canceled
    /\ retCount = 0

\* C9: the count a call returns on its normal path is the sum of the occurrence
\* counts of the sentences whose transaction was committed.
C9_CountIsCommittedOccurrences ==
    (Returned /\ early = Nil) =>
        retCount = SumOver(committedRun, [j \in Indices |-> Occurrences(j)])

\* C10: a call in which a batch failed returns a non-nil error, and the error of
\* the normal return path is the first non-nil of the consumer's error, the error
\* Close returned and the error recorded through OnError.
C10_BatchFailureIsReturned ==
    Returned =>
        /\ batchFailed => retErr # Nil
        /\ early = Nil =>
            retErr = IF consumerErr # Nil THEN consumerErr
                     ELSE IF lastErr # Nil THEN lastErr ELSE batchErr

\* C10 witness: a call whose consumer ended without error returns the batch error.
C10_Witness ==
    /\ Returned
    /\ batchFailed
    /\ consumerErr = Nil
    /\ retErr = ErrBatch


\* ------------------------------------------------------------------ worker pool
\* C11: when Close is called while a Submit is blocked on a full job queue, that
\* Submit eventually returns ErrPoolClosed and the Close eventually returns.
C11_BlockedSubmitReturnsClosed ==
    \A s \in Submitters :
        (spc[s] = "send" /\ Len(jobs) >= queue /\ clpc = "lock" /\ ~poolClosed)
            ~> (sret[s] = ErrPoolClosed /\ closeReturns > 0)

\* C12: a Submit that began after a Close had returned never reaches the send on
\* the job queue, returns ErrPoolClosed and leaves no job behind; no send panics.
C12_SubmitAfterCloseIsRefused ==
    /\ ~panicked
    /\ \A s \in Submitters :
        afterClose[s] =>
            /\ spc[s] # "send"
            /\ spc[s] = "done" => sret[s] = ErrPoolClosed
            /\ s \notin Range(jobs)
            /\ s \notin sending
            /\ ran[s] = 0

\* C12 witness: a Submit begun after Close returned has come back with ErrPoolClosed.
C12_Witness ==
    \E s \in Submitters :
        /\ afterClose[s]
        /\ spc[s] = "done"
        /\ sret[s] = ErrPoolClosed
        /\ poolStarted

\* C13: no job runs twice, and once a Close has returned on a started pool whose
\* context is not cancelled, every job whose Submit returned nil has run exactly once.
C13_AcceptedJobsRunOnce ==
    /\ \A s \in Submitters : ran[s] <= 1
    /\ (poolStarted /\ ~ctxDone /\ closeReturns > 0) =>
        \A s \in Submitters : sret[s] = Nil => ran[s] = 1

\* C13 witness: Close has returned after two jobs were accepted, one of them by a
\* Submit that had to wait for room in the queue, and both have run.
C13_Witness ==
    /\ poolStarted
    /\ ~ctxDone
    /\ closeReturns > 0
    /\ Cardinality({s \in Submitters : sret[s] = Nil /\ ran[s] = 1}) >= 2
    /\ queue = 1

\* C14: once the context passed to Start is cancelled, every worker eventually
\* returns, and a Close of the started pool that is under way eventually returns.
C14_CancelStopsWorkersAndClose ==
    /\ (poolStarted /\ ctxDone) ~> (liveWorkers = 0)
    /\ (poolStarted /\ ctxDone /\ clpc # "idle") ~> (clpc = "idle")

\* ------------------------------------------------------------------ batch writer
IsPrefix(s, t) ==
    /\ Len(s) <= Len(t)
    /\ \A k \in 1..Len(s) : s[k] = t[k]

Increasing(q) == \A a, b \in 1..Len(q) : a < b => q[a] < q[b]

CountIn(q, x) == Cardinality({k \in 1..Len(q) : q[k] = x})

\* The callbacks the committer has invoked, in the order of their invocation.
Runs == Flatten([k \in 1..Len(txLog) |-> txLog[k].run])

\* The batches the committer has taken from commitCh, in order.
TakenBatches == [k \in 1..Len(txLog) |-> txLog[k].batch]

\* The transactions that ended with an error.
FailedTxs == {k \in 1..Len(txLog) : txLog[k].res \in {"failed", "nobegin", "nocommit"}}

\* C15: every batch sent to the committer gets exactly one transaction, in the order
\* of the flushes; a transaction invokes callbacks of its own batch only, in their
\* submission order, and all of them when it commits; over all transactions the
\* callbacks are invoked in the order of their submission, none twice.
C15_CallbacksRunInOrderInOneTransaction ==
    /\ TakenBatches \o commitCh = flushed
    /\ \A k \in 1..Len(flushed) :
        /\ flushed[k] # <<>>
        /\ \A n \in 1..(Len(flushed[k]) - 1) : flushed[k][n + 1] = flushed[k][n] + 1
    /\ Increasing(Flatten(flushed))
    /\ Range(Flatten(flushed)) \subseteq Range(submitted)
    /\ Increasing(submitted)
    /\ \A k \in 1..Len(txLog) :
        /\ IsPrefix(txLog[k].run, txLog[k].batch)
        /\ txLog[k].res = "committed" => txLog[k].run = txLog[k].batch
    /\ Increasing(Runs)
    /\ cmpc = "intx" =>
        /\ txLog[Len(txLog)].res = "open"
        /\ txLog[Len(txLog)].run \o tx.batch = txLog[Len(txLog)].batch
        /\ OpsIdx(tx.ops, "link") \cup OpsIdx(tx.ops, "progress")
              \subseteq Range(txLog[Len(txLog)].run)

\* C15 witness: a transaction of two callbacks has committed and the next
\* transaction has invoked a callback.
C15_Witness ==
    /\ Len(txLog) >= 2
    /\ txLog[1].res = "committed"
    /\ Len(txLog[1].run) = 2
    /\ Len(txLog[2].run) >= 1

\* C16: in a batch one of whose callbacks returned an error the callbacks after
\* the failing one are never invoked, no write of the batch is in the committed
\* store, and OnError was called once for it: the store holds the writes of the
\* committed batches only, and OnError was called once per failed or dropped batch.
C16_FailedBatchIsRolledBack ==
    /\ \A k \in 1..Len(txLog) :
        txLog[k].res = "failed" =>
            /\ txLog[k].run # <<>>
            /\ IsPrefix(txLog[k].run, txLog[k].batch)
            /\ \A idx \in Range(txLog[k].batch) :
                /\ CountIn(Runs, idx) = CountIn(txLog[k].run, idx)
                /\ db.applied[idx] = 0
    /\ \A idx \in Indices :
        db.applied[idx] =
            IF \E k \in 1..Len(txLog) :
                    txLog[k].res = "committed" /\ idx \in Range(txLog[k].run)
            THEN 1 ELSE 0
    /\ \A w \in WordUniverse :
        db.occ[w] = TotalOccurrences({idx \in Indices : db.applied[idx] = 1}, w)
    /\ Len(onErrors) = Cardinality(FailedTxs) + Len(dropped)
    /\ CountIn(onErrors, ErrBatch) = Cardinality(FailedTxs)

\* C16 witness: the second callback of a batch failed after the first had written,
\* and a later batch has committed.
C16_Witness ==
    /\ Len(txLog) >= 2
    /\ txLog[1].res = "failed"
    /\ Len(txLog[1].run) = 2
    /\ txLog[2].res = "committed"
    /\ onErrors = << ErrBatch >>

\* C17: once Close has returned, no step invokes a callback, flushes or drops a
\* batch, begins, commits or rolls back a transaction, or accepts a callback.
C17_NothingAfterClose ==
    [][closeRet # <<>> =>
          /\ txLog' = txLog
          /\ tx' = tx
          /\ db' = db
          /\ flushed' = flushed
          /\ dropped' = dropped
          /\ commitCh' = commitCh
          /\ buf' = buf
          /\ onErrors' = onErrors
          /\ submitted' = submitted]_vars

\* C17 witness: Close has returned after callbacks ran, and a later Submit was
\* refused.
C17_Witness ==
    /\ closeRet # <<>>
    /\ Runs # <<>>
    /\ submitRet = ErrBatchWriterClosed
    /\ cmpc = "exited"
    /\ tickerExited

C19_FirstErrorIsKept ==
    /\ [](/\ lastErr = IF onErrors = <<>> THEN Nil ELSE onErrors[1]
          /\ closeRet # <<>> => closeRet[1] = lastErr)
    /\ [][lastErr # Nil => lastErr' = lastErr]_vars

\* C19 witness: a failed batch and a dropped batch, in either order, and Close has
\* returned the error of the first.
C19_Witness ==
    /\ Len(onErrors) >= 2
    /\ onErrors[1] # onErrors[2]
    /\ closeRet # <<>>
    /\ closeRet[1] = onErrors[1]

\* C20: a flush that finds commitCh full and bw.ctx done drops its batch, and only
\* a done bw.ctx lets a flush drop; no callback of a dropped batch is invoked or
\* waits for the committer; OnError got one error per dropped batch, naming its
\* length; and lastErr is set once a batch was dropped.
C20_FullAndDoneDrops ==
    /\ [](/\ \A k \in 1..Len(dropped) :
               \A idx \in Range(dropped[k]) :
                   /\ idx \notin Range(Runs)
                   /\ idx \notin Range(Pending)
          /\ SelectSeq(onErrors, LAMBDA e : e # ErrBatch)
               = [k \in 1..Len(dropped) |-> ErrDropped(Len(dropped[k]))]
          /\ dropped # <<>> => lastErr # Nil
          /\ (dropped # <<>> /\ Cardinality(FailedTxs) = 0) =>
                lastErr = ErrDropped(Len(dropped[1])))
    /\ [][/\ (/\ bwCtxDone
              /\ Len(commitCh) = CommitChCap
              /\ Len(flushed') + Len(dropped') > Len(flushed) + Len(dropped)) =>
                 (Len(dropped') = Len(dropped) + 1 /\ commitCh' = commitCh)
          /\ dropped' # dropped => bwCtxDone]_vars

\* C20 witness: a batch was dropped behind a full commit channel and its error is
\* the writer's first error.
C20_Witness ==
    /\ dropped # <<>>
    /\ Len(commitCh) = CommitChCap
    /\ \A k \in 1..Len(commitCh) : Head(commitCh[k]) < Head(dropped[1])
    /\ txLog = <<>>
    /\ lastErr = ErrDropped(Len(dropped[1]))
    /\ onErrors = << lastErr >>

\* ------------------------------------------------------------------------ C21
\* C21: the batch writer has at most one transaction in flight.  Every
\* transaction but the newest is finished (committed, rolled back or never
\* begun), the newest is open exactly while the committer is inside
\* executeBatch, and the batches are taken in the order they were flushed.
C21_OneTransactionAtATime ==
    /\ \A k \in 1..Len(txLog) :
        txLog[k].res = "open" => (k = Len(txLog) /\ cmpc = "intx")
    /\ cmpc = "intx" =>
        /\ txLog # <<>>
        /\ txLog[Len(txLog)].res = "open"
        /\ tx # NoTx
    /\ cmpc # "intx" => tx = NoTx
    /\ TakenBatches \o commitCh = flushed

\* A second transaction is open after the first one finished while a flushed
\* batch waits in commitCh.
C21_Witness ==
    /\ Len(txLog) >= 2
    /\ txLog[Len(txLog)].res = "open"
    /\ txLog[1].res # "open"
    /\ commitCh # <<>>

\* ------------------------------------------------------------------------ C22
\* The word_sources row of the pair of the last LinkWordToSource call, 0 if none.
PairRow(t, call) ==
    LET Same(r) == r.word_id = call.wordID /\ r.source_id = call.sourceID
    IN  RowId([rowid \in DOMAIN t.word_sources |-> Same(t.word_sources[rowid])])

\* C22: after any sequence of LinkWordToSource calls every (word, source) pair
\* has at most 5 rows in word_contexts and no two of them for the same
\* sentence; a call for a pair that already has 5 contexts stores no context,
\* and still adds its increment to the pair's occurrence_count.
C22_ContextsAreCapped ==
    /\ [](\A id \in 1..Len(store.word_sources) :
            /\ Cardinality(ContextsOf(store, id)) <= ContextCap
            /\ \A k, j \in ContextsOf(store, id) :
                store.word_contexts[k].sentence_id = store.word_contexts[j].sentence_id
                    => k = j)
    /\ [](\A k, j \in 1..Len(store.sentences) :
            store.sentences[k] = store.sentences[j] => k = j)
    /\ [][LET id == PairRow(store, lastLink')
          IN  (id # 0 /\ Cardinality(ContextsOf(store, id)) = ContextCap
               /\ lastLink'.incrementAmount >= 1) =>
                /\ lastLink'.err = Nil
                /\ store'.word_contexts = store.word_contexts
                /\ store'.word_sources[id].occurrence_count =
                       store.word_sources[id].occurrence_count
                       + lastLink'.incrementAmount]_vars

\* A sixth distinct context was offered for a pair that has 5 stored: the row
\* counts 6 occurrences and refers to the sixth sentence, which is no context.
C22_Witness ==
    \E id \in 1..Len(store.word_sources) :
        /\ Cardinality(ContextsOf(store, id)) = ContextCap
        /\ store.word_sources[id].occurrence_count = ContextCap + 1
        /\ store.word_sources[id].context_sentence_id = << ContextCap + 1 >>
        /\ \A k \in ContextsOf(store, id) :
            store.word_contexts[k].sentence_id # ContextCap + 1
        /\ linkFailures = 0

\* ------------------------------------------------------------------------ C23
\* The sentence a nullable reference of a row stands for, << >> if it is NULL.
TextOfRef(t, ref) == IF ref = NULL THEN << >> ELSE t.sentences[ref[1]]

\* C23: as long as every LinkWordToSource call succeeded, the occurrence_count of
\* a pair is the sum of the increments of its calls, its context and example
\* references are the sentences of its latest call, and only pairs that were
\* linked have a row; no call ever lowers an occurrence_count.
C23_CountIsSumOfIncrements ==
    /\ [](linkFailures = 0 =>
            /\ \A id \in 1..Len(store.word_sources) :
                << store.word_sources[id].word_id, store.word_sources[id].source_id >>
                    \in DOMAIN linkHist
            /\ \A pair \in DOMAIN linkHist :
                LET Same(r) == r.word_id = pair[1] /\ r.source_id = pair[2]
                    id == RowId([rowid \in DOMAIN store.word_sources |-> Same(store.word_sources[rowid])])
                IN  /\ id # 0
                    /\ \A k \in 1..Len(store.word_sources) :
                        Same(store.word_sources[k]) => k = id
                    /\ store.word_sources[id].occurrence_count = linkHist[pair].sum
                    /\ TextOfRef(store, store.word_sources[id].context_sentence_id)
                           = linkHist[pair].context
                    /\ TextOfRef(store, store.word_sources[id].example_sentence_id)
                           = linkHist[pair].example)
    /\ [][/\ Len(store'.word_sources) >= Len(store.word_sources)
          /\ \A id \in 1..Len(store.word_sources) :
                store'.word_sources[id].occurrence_count
                    >= store.word_sources[id].occurrence_count]_vars

\* Two pairs were linked by successful calls only; one of them was linked at
\* least twice, last with the second text as context and no example.
C23_Witness ==
    /\ linkFailures = 0
    /\ Cardinality(DOMAIN linkHist) = 2
    /\ \E pair \in DOMAIN linkHist :
        /\ linkHist[pair].sum = MaxIncrement + 1
        /\ linkHist[pair].context = TextOf(2)
        /\ linkHist[pair].example = << >>

\* ------------------------------------------------------------------------ C27
\* C27: a LinkWordToSource call with wordID <= 0, sourceID <= 0 or an increment
\* below 1 returns an error and changes no table.
C27_InvalidLinkChangesNothing ==
    [][(lastLink'.wordID <= 0 \/ lastLink'.sourceID <= 0
        \/ lastLink'.incrementAmount < 1) =>
            /\ lastLink'.err \in {ErrWordID, ErrSourceID, ErrIncrement}
            /\ store' = store]_vars

\* The validation refused a negative word id on a store that holds links,
\* contexts and sentences.
C27_Witness ==
    /\ lastLink.wordID < 0
    /\ lastLink.err = ErrWordID
    /\ store.word_sources # << >>
    /\ store.word_contexts # << >>
    /\ store.sentences # << >>

\* ------------------------------------------------------------------------ C24
SameWord(r, q) == r.word = q.word /\ r.lemma = q.lemma /\ r.language = q.language

\* C24: whatever the interleaving of the CreateOrGetWord calls, the words table
\* has exactly one row for each (trimmed word, lemma, language) a call has
\* upserted, and each call returned the id of the row of its triple, so calls
\* for one triple returned one id.
C24_OneRowPerWord ==
    /\ \A k, j \in 1..Len(store.words) :
        SameWord(store.words[k], store.words[j]) => k = j
    /\ \A k \in 1..Len(store.words) :
        /\ store.words[k].word = TrimSpace(store.words[k].word)
        /\ \E r \in wordRets : SameWord(r, store.words[k])
    /\ \A r \in wordRets :
        /\ r.id \in 1..Len(store.words)
        /\ SameWord(r, store.words[r.id])
    /\ \A r, q \in wordRets : SameWord(r, q) => r.id = q.id

\* Two goroutines got the same id, and a third call made a second row.
C24_Witness ==
    /\ Len(store.words) = 2
    /\ \A p \in WordCallers :
        /\ wcall[p].pc = "returned"
        /\ wcall[p].err = Nil
        /\ wcall[p].id = 2
    /\ numWordCalls = MaxWordCalls

\* ------------------------------------------------------------------------ C26
HasKey(r, key) == r.url = key.url /\ r.title = key.title /\ r.author = key.author

\* C26: in every interleaving of the select and insert steps of concurrent
\* CreateOrGetSource calls, each call with a source type returns without error
\* the id of the row of its (url, title, author), calls with the same key return
\* the same id, no call is beyond its third attempt, and no two rows have the
\* same key.
C26_ConcurrentSourcesAgree ==
    /\ \A p \in SourceCallers :
        /\ scall[p].pc \in {"select", "insert"} => scall[p].attempt < maxRetries
        /\ (scall[p].pc = "returned" /\ scall[p].err # ErrEmptySourceType) =>
            /\ scall[p].err = Nil
            /\ scall[p].attempt < maxRetries
            /\ scall[p].id \in 1..Len(store.sources)
            /\ HasKey(store.sources[scall[p].id], scall[p].key)
    /\ \A p, q \in SourceCallers :
        (/\ scall[p].pc = "returned" /\ scall[p].err = Nil
         /\ scall[q].pc = "returned" /\ scall[q].err = Nil
         /\ scall[p].key = scall[q].key) => scall[p].id = scall[q].id
    /\ \A k, j \in 1..Len(store.sources) :
        (/\ store.sources[k].url = store.sources[j].url
         /\ store.sources[k].title = store.sources[j].title
         /\ store.sources[k].author = store.sources[j].author) => k = j

\* Three concurrent calls for one key returned the same id; two of them lost the
\* race for the insert and found the row on their second attempt.
C26_Witness ==
    /\ Len(store.sources) = 1
    /\ \A p \in SourceCallers :
        /\ scall[p].pc = "returned"
        /\ scall[p].err = Nil
        /\ scall[p].id = 1
    /\ Cardinality({p \in SourceCallers : scall[p].attempt = 1}) = NumSourceCallers - 1

\* ------------------------------------------------------------------------ C28
\* The filter and the canonical form as the specification states them.
C28_Filtered(t) ==
    \/ t.PrimaryPOS \in {"kigou", "hojokigou", "joshi", "jodoushi"}
    \/ (Len(t.PartsOfSpeech) >= 2 /\ t.PartsOfSpeech[2] = "suu")
    \/ t.Surface \in AsciiSurfaces

C28_Canonical(t) == IF t.BaseForm \in {"", "*"} THEN t.Surface ELSE t.BaseForm

C28_Kept == {k \in 1..Len(tokens) : ~C28_Filtered(tokens[k])}

\* The id of a word in the words table, 0 if it has no row.
WordRow(t, w) ==
    LET Same(r) == r.word = << w >> /\ r.lemma = w /\ r.language = "ja"
    IN  RowId([rowid \in DOMAIN t.words |-> Same(t.words[rowid])])

\* C28: the words of a processed sentence are exactly the canonical forms
\* (BaseForm, or Surface when BaseForm is empty or "*") of the tokens that are not
\* filtered by part of speech, by the number sub-class or by an ASCII surface;
\* its callback creates word rows and issues links for these words and no other.
C28_FilteredTokensYieldNoWord ==
    /\ senpc \in {"processed", "written"} =>
        /\ {senWords[k].Word : k \in 1..Len(senWords)}
               = {C28_Canonical(tokens[k]) : k \in C28_Kept}
        /\ \A k, j \in 1..Len(senWords) : senWords[k].Word = senWords[j].Word => k = j
    /\ senpc = "written" =>
        /\ senErr = Nil
        /\ {linkLog[k].word : k \in 1..Len(linkLog)}
               = {C28_Canonical(tokens[k]) : k \in C28_Kept}
        /\ {store.words[k].word : k \in 1..Len(store.words)}
               = {storeBefore.words[k].word : k \in 1..Len(storeBefore.words)}
                 \cup {<< C28_Canonical(tokens[k]) >> : k \in C28_Kept}

\* A sentence of three tokens was written: one filtered by its part of speech,
\* one by its ASCII surface or number sub-class, one kept under its surface
\* because its base form is "*".
C28_Witness ==
    /\ senpc = "written"
    /\ Len(tokens) = MaxTokens
    /\ \E k \in 1..Len(tokens) : tokens[k].PrimaryPOS \in FilteredPOS
    /\ \E k \in 1..Len(tokens) :
        tokens[k].PrimaryPOS \notin FilteredPOS /\ C28_Filtered(tokens[k])
    /\ \E k \in C28_Kept : tokens[k].BaseForm = "*"
    /\ Len(senWords) = 1
    /\ Len(store.words) = Len(storeBefore.words) + 1

\* ------------------------------------------------------------------------ C25
C25_Occurrences(w) ==
    Cardinality({k \in C28_Kept : C28_Canonical(tokens[k]) = w})

\* occurrence_count of the word for source 1 in the tables t, 0 without a row.
CountOf(t, w) ==
    LET Same(r) == r.word_id = WordRow(t, w) /\ r.source_id = 1
        id == RowId([rowid \in DOMAIN t.word_sources |-> Same(t.word_sources[rowid])])
    IN  IF WordRow(t, w) = 0 \/ id = 0 THEN 0 ELSE t.word_sources[id].occurrence_count

\* The word_contexts rows of the word for source 1 in the tables t.
ContextRowsOf(t, w) ==
    LET Same(r) == r.word_id = WordRow(t, w) /\ r.source_id = 1
        id == RowId([rowid \in DOMAIN t.word_sources |-> Same(t.word_sources[rowid])])
    IN  IF WordRow(t, w) = 0 \/ id = 0 THEN 0 ELSE Cardinality(ContextsOf(t, id))

\* C25: a word kept n times among the tokens of a sentence is linked once, with
\* increment n; its occurrence_count grows by n, the sentence adds the number of
\* its kept tokens to the count Ingest returns, and at most one word_contexts row
\* is added for the word.
C25_DuplicatesAreOneLink ==
    senpc = "written" =>
        /\ senErr = Nil
        /\ senLinks = Cardinality(C28_Kept)
        /\ \A k \in C28_Kept :
            LET w == C28_Canonical(tokens[k])
            IN  /\ Cardinality({j \in 1..Len(linkLog) : linkLog[j].word = w}) = 1
                /\ \A j \in 1..Len(linkLog) :
                    linkLog[j].word = w =>
                        linkLog[j].incrementAmount = C25_Occurrences(w)
                /\ CountOf(store, w) = CountOf(storeBefore, w) + C25_Occurrences(w)
                /\ ContextRowsOf(store, w) <= ContextRowsOf(storeBefore, w) + 1

\* The sentence neko-ha-neko was written to a store that already had neko once:
\* one link with increment 2, occurrence_count 3, and one context more.
C25_Witness ==
    /\ senpc = "written"
    /\ \E k \in C28_Kept :
        /\ C25_Occurrences(C28_Canonical(tokens[k])) = 2
        /\ CountOf(storeBefore, C28_Canonical(tokens[k])) = 1
        /\ CountOf(store, C28_Canonical(tokens[k])) = 3
        /\ ContextRowsOf(store, C28_Canonical(tokens[k])) = 2
    /\ Len(linkLog) = 1
    /\ senLinks = 2

\* ------------------------------------------------------------------------ C29
\* The hiragana form of a text, as the specification states it.
C29_Hiragana(s) ==
    [k \in 1..Len(s) |->
        IF s[k] \in KatakanaFirst..KatakanaLast THEN s[k] - KanaShift ELSE s[k]]

C29_Expected(e) ==
    /\ \E text \in Range(e.Kanji) \cup Range(e.Kana) :
        text = lookup.word \/ text = lookup.lemma
    /\ lookup.pronunciation # << >> =>
        \E text \in Range(e.Kana) :
            C29_Hiragana(text) = C29_Hiragana(lookup.pronunciation)

\* C29: the list a lookup returns is strictly ascending by entry id, and its
\* entries are exactly the entries of the dictionary that have a kanji or kana
\* text equal to the word or the lemma and, for a non-empty pronunciation, a
\* kana text with the same hiragana form as the pronunciation.
C29_LookupIsSortedAndExact ==
    lookup.called =>
        /\ \A k \in 1..(Len(lookup.matches) - 1) :
            LessId(lookup.matches[k].Id, lookup.matches[k + 1].Id)
        /\ Range(lookup.matches) = {e \in Range(dict) : C29_Expected(e)}

\* A lookup by kanji with a katakana pronunciation returned two of three entries,
\* in the order of their ids and not of the dictionary; one has the reading in
\* hiragana only, and the third entry has the text and another reading.
C29_Witness ==
    /\ lookup.called
    /\ Len(dict) = 3
    /\ lookup.pronunciation = TextNekoKata
    /\ Len(lookup.matches) = 2
    /\ lookup.matches[1] = dict[2]
    /\ lookup.matches[2] = dict[1]
    /\ TextNekoKata \notin Range(dict[1].Kana)
    /\ TextNekoKanji \in Range(dict[3].Kanji)

\* ------------------------------------------------------------------------ C30
\* C30: once a batch has failed in the batch writer, no batch that holds a later
\* sentence is committed.
C30_NoCommitAfterFailedBatch ==
    \A k \in FailedTxs : \A j \in 1..Len(txLog) :
        (/\ txLog[j].res = "committed"
         /\ \E later \in Range(txLog[j].batch) :
                \A failed \in Range(txLog[k].batch) : later > failed)
            => FALSE

\* ------------------------------------------------------------------------ C31
\* The call has returned and every goroutine it started has returned.
C31_AllReturned ==
    /\ mpc = "returned"
    /\ cpc \in {"notstarted", "exited"}
    /\ cpc = "exited" => liveWorkers = 0 /\ cmpc = "exited" /\ tickerExited

\* C31: every Ingest call eventually returns and no goroutine of its pipeline
\* stays blocked: from some point on the call has returned and the consumer, the
\* workers, the ticker loop and the committer have all returned.
C31_EveryCallReturns == <>[]C31_AllReturned

\* A call that the caller cancelled while it ran has returned with sentences left
\* unsubmitted after a batch of it failed, and all its goroutines have returned.
C31_Witness ==
    /\ C31_AllReturned
    /\ cpc = "exited"
    /\ callerCancelled
    /\ ~cancelledAtCall
    /\ batchFailed
    /\ Len(submitted) < totalSentences

\* ------------------------------------------------------------------------ C32
\* The callbacks the writer holds or has run: buffered, waiting in commitCh, left
\* in the open transaction, or invoked.
C32_Held ==
    Range(buf) \cup Range(Flatten(commitCh)) \cup Range(tx.batch) \cup Range(Runs)
        \cup Range(Flatten(flushed)) \cup Range(Flatten(dropped))

\* C32: a Submit on a writer that Close has marked closed returns
\* ErrBatchWriterClosed and leaves the buffer as it is, and the refused callback
\* (the one after those accepted so far) is never buffered, queued or invoked.
C32_SubmitAfterCloseIsRefused ==
    /\ [](submitRet = ErrBatchWriterClosed =>
            bwClosed /\ Len(submitted) \notin C32_Held)
    /\ [](bwClosed => C32_Held \subseteq Range(submitted))
    /\ [][bwClosed =>
            /\ buf' = buf
            /\ submitted' = submitted
            /\ submitRet' \in {submitRet, ErrBatchWriterClosed}]_vars

\* A Submit was refused while Close was still waiting for the committer; by now
\* Close has returned, the accepted callbacks were committed and the committer is
\* gone.
C32_Witness ==
    /\ submitRet = ErrBatchWriterClosed
    /\ closeRet # <<>>
    /\ cmpc = "exited"
    /\ submitted # <<>>
    /\ Len(submitted) < totalSentences
    /\ \E k \in 1..Len(txLog) : txLog[k].res = "committed"

\* ------------------------------------------------------------------------ C33
\* Callback w is in a batch waiting in commitCh.
C33_Queued(w) == w \in Range(Flatten(commitCh))

\* The transaction of the batch holding callback w has ended.
C33_Executed(w) ==
    \E k \in 1..Len(txLog) : w \in Range(txLog[k].batch) /\ txLog[k].res # "open"

C35_PoolState ==
    << poolClosed, jobs, liveWorkers, sending, ran, spc, sret, closeMu, panicked >>

\* C35: a Close on a closed pool, called after the first Close returned or while
\* it waits for the workers, closes the job queue no second time (nothing
\* panics), leaves the pool as it is, and returns as soon as it holds p.closeMu,
\* which it always gets.
C35_CloseIsIdempotent ==
    /\ []~panicked
    /\ [][clpc = "lock" /\ poolClosed /\ clpc' # clpc =>
            clpc' = "idle" /\ closeReturns' = closeReturns + 1
                /\ UNCHANGED C35_PoolState]_vars
    /\ [][cl2pc = "lock" /\ cl2pc' # cl2pc =>
            poolClosed /\ cl2pc' = "returned" /\ UNCHANGED C35_PoolState]_vars
    /\ (clpc = "lock" /\ poolClosed) ~> (clpc = "idle")
    /\ (cl2pc = "lock") ~> (cl2pc = "returned")

\* The first Close has returned after waiting for the workers of a started pool;
\* a Close called while it waited and a Close called after it have returned too.
C35_Witness ==
    /\ poolStarted
    /\ poolClosed
    /\ closeReturns = 2
    /\ clpc = "idle"
    /\ cl2pc = "returned"
    /\ \E s \in Submitters : ran[s] = 1

\* ------------------------------------------------------------------------ C36
\* C36: a call whose SubmitCtx failed with an error of its own returns that error
\* with count 0; every call that set the pipeline up has closed resultCh exactly
\* once when it returns, and no call closes it twice; after the failed SubmitCtx
\* the consumer goroutine returns.
C36_SubmitErrorClosesResultChOnce ==
    /\ [](mpc = "returned" /\ early = ErrSubmit => retErr = ErrSubmit /\ retCount = 0)
    /\ [](resultChCloses <= 1)
    /\ [](mpc = "returned" /\ cpc # "notstarted" =>
            closedResultCh /\ resultChCloses = 1)
    /\ (early = ErrSubmit) ~> (cpc = "exited")

\* The call with the failing pool has returned the pool's error, resultCh was
\* closed once and the consumer has returned.
C36_Witness ==
    /\ mpc = "returned"
    /\ poolKind = "failing"
    /\ early = ErrSubmit
    /\ retErr = ErrSubmit
    /\ retCount = 0
    /\ resultChCloses = 1
    /\ cpc = "exited"

\* ------------------------------------------------------------------------ C37
\* C37: a call that set the pipeline up and returned a nil error has committed
\* the callback of every sentence from its start index on, and the checkpoint is
\* the index of the last sentence.
C37_NilReturnMeansAllCommitted ==
    (Returned /\ retErr = Nil) =>
        /\ committedRun = StartIdx(lastProcessed)..(totalSentences - 1)
        /\ GetSourceProgress(db) = totalSentences - 1

\* ------------------------------------------------------------------------ C38
\* C38: the reorder buffer never holds a result below nextIdx, and no sentence
\* index is handed to the batch writer twice in one call.
C38_BufferAboveNextIdxSubmitOnce ==
    /\ \A x \in buffer : x >= nextIdx
    /\ \A a, b \in 1..Len(submitted) : a # b => submitted[a] # submitted[b]
    /\ \A x \in buffer : x \notin Range(submitted)

\* Results arrived out of order: one callback was handed on, the next index is
\* still missing and a later result waits in the buffer.
C38_Witness ==
    /\ submitted # <<>>
    /\ nextIdx \notin buffer
    /\ \E x \in buffer : x > nextIdx
    /\ cpc \in {"top", "recv"}

\* ------------------------------------------------------------------------ C39
\* C39: once commitCh is closed nothing is sent on it (it only loses batches at
\* its head); the step of Close that closes it is taken with the channel open
\* only; and a Close of the closed writer returns ErrBatchWriterClosed and leaves
\* the channel, the buffer and the writer's context alone.
C39_CommitChClosedOnceNoSendAfter ==
    /\ [][commitClosed => commitClosed' /\ IsSuffix(commitCh', commitCh)]_vars
    /\ [][mpc = "bwShutdown" /\ mpc' # mpc => ~commitClosed /\ commitClosed']_vars
    /\ [][closeRet # <<>> /\ closeRet' # closeRet =>
            /\ closeRet' = Append(closeRet, ErrBatchWriterClosed)
            /\ UNCHANGED << commitCh, commitClosed, bwCtxDone, bwClosed, buf, flushed,
                            dropped >>]_vars
    /\ [](commitClosed => bwClosed /\ buf = <<>>)

\* After ticker and capacity flushes, Close has closed commitCh and returned, a
\* Submit was refused, and the second Close has returned ErrBatchWriterClosed.
C39_Witness ==
    /\ commitClosed
    /\ Len(closeRet) = 2
    /\ closeRet[2] = ErrBatchWriterClosed
    /\ submitRet = ErrBatchWriterClosed
    /\ Len(flushed) >= 2
    /\ cmpc = "exited"

\* ------------------------------------------------------------------------ C40
\* C40: a flush drops its batch only when commitCh is full: every step that adds
\* a batch to the dropped ones starts with commitCh at its capacity.
C40_DropOnlyWhenCommitChFull ==
    [][Len(dropped') > Len(dropped) => Len(commitCh) >= CommitChCap]_vars
====
